---- MODULE Spec2Model ----
(***************************************************************************)
(* GitHub contribution assistant (Cloudflare worker + React UI).           *)
(*                                                                         *)
(* The worker keeps one snapshot ("RepoIndex") per cache key in a KV store *)
(* with a hard TTL, rebuilds it from the GitHub REST API, and answers      *)
(* questions with two language-model calls at most.                        *)
(*                                                                         *)
(* Texts that the code only measures or cuts are modelled by their length; *)
(* repository identifiers are sequences of one-character strings, so that  *)
(* the two regular expressions of the code are computed, not assumed.      *)
(* Time is in whole seconds.                                               *)
(***************************************************************************)
EXTENDS Integers, Sequences, FiniteSets, TLC

VARIABLES
    now,        \* Date.now(), in seconds
    hasPat,     \* env.GITHUB_PAT is set
    kv,         \* env.CACHE_KV: cache key -> [value, expiry]
    puts,       \* history: the CACHE_KV.put calls, in execution order
    req,        \* the requests in flight, one record per request slot
    fnPc,       \* position of the function-level specifications
    fnIn,       \* their input
    fnOut       \* their output

vars == <<now, hasPat, kv, puts, req, fnPc, fnIn, fnOut>>

mainVars == <<now, hasPat, kv, puts, req>>

fnVars == <<fnPc, fnIn, fnOut>>

(***************************************************************************)
(* Characters and identifier texts                                         *)
(***************************************************************************)
Letters ==
    {"a", "b", "c", "d", "e", "f", "g", "h", "i", "j", "k", "l", "m",
     "n", "o", "p", "q", "r", "s", "t", "u", "v", "w", "x", "y", "z"}

\* [a-zA-Z0-9_-]
OwnerChars == Letters \cup {"0", "1", "2", "3", "4", "5", "6", "7", "8", "9"} \cup {"_", "-"}

\* [a-zA-Z0-9_.-]
NameChars == OwnerChars \cup {"."}

\* \s
SpaceChars == {" "}

\* the characters [^\/\s?#] excludes
RepoStopChars == {"/", "?", "#"} \cup SpaceChars

HttpsText == <<"h", "t", "t", "p", "s", ":", "/", "/">>

HttpText == <<"h", "t", "t", "p", ":", "/", "/">>

HostText == <<"g", "i", "t", "h", "u", "b", ".", "c", "o", "m", "/">>

DotGitText == <<".", "g", "i", "t">>

\* s starts with p at position i (1-based)
HasAt(s, p, i) ==
    /\ i >= 1
    /\ i + Len(p) - 1 <= Len(s)
    /\ \A k \in 1..Len(p) : s[i + k - 1] = p[k]

\* s ends with p
EndsWith(s, p) == Len(s) >= Len(p) /\ HasAt(s, p, Len(s) - Len(p) + 1)

\* the end (exclusive) of the longest run from i of characters outside stop
RunEnd(s, i, stop) ==
    LET ends == {j \in i..(Len(s) + 1) :
                    /\ \A k \in i..(j - 1) : s[k] \notin stop
                    /\ (j = Len(s) + 1 \/ s[j] \in stop)}
    IN  CHOOSE j \in ends : TRUE

\* the end (exclusive) of the longest run from i of characters inside allowed
RunEndIn(s, i, allowed) ==
    LET ends == {j \in i..(Len(s) + 1) :
                    /\ \A k \in i..(j - 1) : s[k] \in allowed
                    /\ (j = Len(s) + 1 \/ s[j] \notin allowed)}
    IN  CHOOSE j \in ends : TRUE

Min(S) == CHOOSE x \in S : \A y \in S : x <= y

NoMatch == [ok |-> FALSE, owner |-> <<>>, repo |-> <<>>]

\* github\.com\/([^\/]+)\/([^\/\s?#]+) matched with the host at position i
HostMatchAt(s, i) ==
    LET o1 == i + Len(HostText)
        o2 == RunEnd(s, o1, {"/"})
        r1 == o2 + 1
        r2 == RunEnd(s, r1, RepoStopChars)
    IN  /\ HasAt(s, HostText, i)
        /\ o2 > o1
        /\ o2 <= Len(s)
        /\ r1 <= Len(s)
        /\ r2 > r1

\* match[2].replace(/\.git$/, '')
StripDotGit(repo) ==
    IF EndsWith(repo, DotGitText)
    THEN SubSeq(repo, 1, Len(repo) - Len(DotGitText))
    ELSE repo

\* parseGitHubUrl: the leftmost match of the (unanchored) expression; the
\* optional scheme group captures nothing.  ok = FALSE stands for the throw
\* of "Invalid GitHub repository URL".
MutParseNoHost(s) ==
    LET o2 == RunEnd(s, 1, {"/"})
        r2 == RunEnd(s, o2 + 1, RepoStopChars)
    IN  IF o2 > 1 /\ o2 < Len(s) /\ r2 > o2 + 1
        THEN [ok |-> TRUE, owner |-> SubSeq(s, 1, o2 - 1),
              repo |-> StripDotGit(SubSeq(s, o2 + 1, r2 - 1))]
        ELSE NoMatch

parseGitHubUrl(s) ==
    LET starts == {i \in 1..Len(s) : HostMatchAt(s, i)}
    IN  IF starts = {}
        THEN NoMatch
        ELSE LET i  == Min(starts)
                 o1 == i + Len(HostText)
                 o2 == RunEnd(s, o1, {"/"})
                 r2 == RunEnd(s, o2 + 1, RepoStopChars)
             IN  [ok |-> TRUE,
                  owner |-> SubSeq(s, o1, o2 - 1),
                  repo |-> StripDotGit(SubSeq(s, o2 + 1, r2 - 1))]

\* validateGitHubUrl (UI):
\* ^(https:\/\/)?(github\.com\/)?[a-zA-Z0-9_-]+\/[a-zA-Z0-9_.-]+\/?$
validateGitHubUrl(s) ==
    \E a \in {0, Len(HttpsText)}, b \in {0, Len(HostText)} :
        /\ a > 0 => HasAt(s, HttpsText, 1)
        /\ b > 0 => HasAt(s, HostText, a + 1)
        /\ LET o1 == a + b + 1
               o2 == RunEndIn(s, o1, OwnerChars)
               n1 == o2 + 1
               n2 == RunEndIn(s, n1, NameChars)
           IN  /\ o2 > o1
               /\ o2 <= Len(s)
               /\ s[o2] = "/"
               /\ n2 > n1
               /\ \/ n2 = Len(s) + 1
                  \/ n2 = Len(s) /\ s[n2] = "/"

(***************************************************************************)
(* Identifier forms used as inputs                                         *)
(***************************************************************************)
\* the forms the specification accepts: bare, host, https + host
AcceptedForm(scheme, host) ==
    \/ scheme = <<>>
    \/ scheme = HttpsText /\ host = HostText

Compose(scheme, host, owner, name, suffix) ==
    [text |-> scheme \o host \o owner \o <<"/">> \o name \o suffix,
     owner |-> owner, name |-> name,
     accepted |-> AcceptedForm(scheme, host)]

\* every scheme, host, owner, name and suffix
FormInputs ==
    {Compose(sc, h, o, n, sf) :
        sc \in {<<>>, HttpsText, HttpText},
        h \in {<<>>, HostText},
        o \in {<<"o">>, <<"a", "-", "b">>},
        n \in {<<"r">>, <<"r", ".", "j", "s">>},
        sf \in {<<>>, <<"/">>, DotGitText, DotGitText \o <<"/">>}}

\* texts no form produces
OtherInputs ==
    {[text |-> t, owner |-> <<>>, name |-> <<>>, accepted |-> FALSE] :
        t \in {<<>>, <<"o">>, HostText, HostText \o <<"o">>,
               HostText \o <<"/", "r">>, HostText \o <<"o", "/">>,
               <<"x", " ">> \o HostText \o <<"o", "/", "r", "?", "t">>,
               HostText \o <<"/", "/">> \o HostText \o <<"o", "/", "r", "#", "x">>}}

(***************************************************************************)
(* Function-level specification: the two identifier expressions            *)
(***************************************************************************)
MainIdle ==
    /\ now = 0
    /\ hasPat = TRUE
    /\ kv = <<>>
    /\ puts = <<>>
    /\ req = <<>>

InitParse ==
    /\ MainIdle
    /\ fnPc = "in"
    /\ fnIn \in (FormInputs \cup OtherInputs)
    /\ fnOut = [parsed |-> NoMatch, valid |-> FALSE]

DoParse ==
    /\ fnPc = "in"
    /\ fnPc' = "out"
    /\ fnOut' = [parsed |-> parseGitHubUrl(fnIn.text),
                 valid |-> validateGitHubUrl(fnIn.text)]
    /\ UNCHANGED <<fnIn, mainVars>>

NextParse == DoParse

SpecParse == InitParse /\ [][NextParse]_vars

\* C6: every accepted identifier form of (owner, name), and every identifier
\* the UI's validateGitHubUrl accepts, is parsed by parseGitHubUrl, the forms
\* of one pair all to that pair.
C6_AcceptedFormsParse ==
    fnPc = "out" =>
        /\ fnIn.accepted =>
              /\ fnOut.parsed.ok
              /\ fnOut.parsed.owner = fnIn.owner
              /\ fnOut.parsed.repo = fnIn.name
        /\ fnOut.valid => fnOut.parsed.ok

(***************************************************************************)
(* Repository Snapshot Builder (tools.ts)                                  *)
(*                                                                         *)
(* An upstream response is [kind, body]: kind "ok" is response.ok, kind    *)
(* "http_error" a status outside 2xx, kind "network_error" a fetch that    *)
(* throws.                                                                 *)
(***************************************************************************)
ResponseKinds == {"ok", "http_error", "network_error"}

\* githubFetch: the body of an ok response, null (none) otherwise; it catches
\* every error of the fetch
githubFetch(resp, none) ==
    IF resp.kind = "ok" THEN resp.body ELSE none

\* a text is its length; some = FALSE is null
NoText == [some |-> FALSE, len |-> 0]

Text(n) == [some |-> TRUE, len |-> n]

\* JavaScript truthiness of string | null
Truthy(t) == t.some /\ t.len > 0

\* truncateText: the text when it fits, else its first maxLength characters
\* followed by '...'
truncateText(len, maxLength) ==
    IF len <= maxLength THEN len ELSE maxLength + 3

\* the body of a contents response: content (base64, its decoded length in
\* len), encoding, and whether atob accepts it
NoContent == [hasContent |-> FALSE, encoding |-> "none", decodes |-> FALSE, len |-> 0]

\* fetchFileContent
fetchFileContent(resp) ==
    LET data == githubFetch(resp, NoContent)
    IN  IF data.hasContent /\ data.encoding = "base64"
        THEN IF data.decodes THEN Text(data.len) ELSE NoText
        ELSE NoText

\* fetchRepoMetadata
fetchRepoMetadata(resp) == githubFetch(resp, [present |-> FALSE])

\* shouldSkipDirectory: the last path segment is on the skip list or begins
\* with '.'.  'public/assets' never equals a last segment.
MutSkipNothing(path) == FALSE

skipDirs ==
    {"node_modules", ".git", "dist", "build", "coverage", ".next", ".nuxt",
     "vendor", "__pycache__", ".venv", "target", "out", ".idea", ".vscode",
     "assets", "public/assets"}

\* the segment names of the model that begin with '.'
DotNames == {".git", ".next", ".nuxt", ".venv", ".idea", ".vscode", ".github"}

shouldSkipDirectory(path) ==
    LET dirName == IF Len(path) = 0 THEN "" ELSE path[Len(path)]
    IN  dirName \in skipDirs \/ dirName \in DotNames

maxDepth == 3

RECURSIVE ConcatAll(_)
ConcatAll(seqs) ==
    IF Len(seqs) = 0 THEN <<>> ELSE Head(seqs) \o ConcatAll(Tail(seqs))

SelectIdx(n, Test(_)) ==
    LET RECURSIVE Go(_)
        Go(i) == IF i > n THEN <<>>
                 ELSE (IF Test(i) THEN <<i>> ELSE <<>>) \o Go(i + 1)
    IN  Go(1)

\* the nodes of a file tree
FileNode(path) == [path |-> path, type |-> "file"]

DirNode(path) == [path |-> path, type |-> "dir"]

\* Promise.all: promises[i] settles with values[i], the promises settle in
\* the order order, and each settled value is stored at the index of its
\* promise
MutPromiseAllByCompletion(values, order) ==
    [k \in 1..Len(values) |-> values[order[k]]]

PromiseAll(values, order) ==
    [i \in 1..Len(values) |->
        values[order[CHOOSE k \in 1..Len(values) : order[k] = i]]]

\* fetchFileTree: listing(path) is the response of the contents endpoint for
\* the directory path (a sequence of segments); an item is [name, type];
\* the listings of sibling directories complete in listing order, or in the
\* reverse order when reversed
RECURSIVE fetchFileTree(_, _, _, _)
fetchFileTree(listing, path, depth, reversed) ==
    IF depth > maxDepth THEN <<>>
    ELSE LET data  == githubFetch(listing[path], <<>>)
             nodes == [i \in 1..Len(data) |->
                          [path |-> path \o <<data[i].name>>,
                           type |-> IF data[i].type = "dir" THEN "dir" ELSE "file"]]
             dirs  == SelectIdx(Len(data), LAMBDA i :
                          /\ data[i].type = "dir"
                          /\ ~shouldSkipDirectory(path \o <<data[i].name>>))
             dirPromises == [k \in 1..Len(dirs) |->
                          fetchFileTree(listing, path \o <<data[dirs[k]].name>>,
                                        depth + 1, reversed)]
             order == [k \in 1..Len(dirs) |->
                          IF reversed THEN Len(dirs) + 1 - k ELSE k]
             nestedResults == PromiseAll(dirPromises, order)
         IN  nodes \o ConcatAll(nestedResults)

\* the directory listings fetchFileTree issues, in the order of the calls
RECURSIVE fetchFileTreeCalls(_, _, _)
fetchFileTreeCalls(listing, path, depth) ==
    IF depth > maxDepth THEN <<>>
    ELSE LET data == githubFetch(listing[path], <<>>)
             dirs == SelectIdx(Len(data), LAMBDA i :
                         /\ data[i].type = "dir"
                         /\ ~shouldSkipDirectory(path \o <<data[i].name>>))
             nested == [k \in 1..Len(dirs) |->
                          fetchFileTreeCalls(listing, path \o <<data[dirs[k]].name>>,
                                             depth + 1)]
         IN  <<path>> \o ConcatAll(nested)

\* fetchIssues: the items that are no pull request, bodies cut to 500
MutFetchIssuesKeepsAll(resp) ==
    LET data == githubFetch(resp, <<>>)
    IN  [k \in 1..Len(data) |->
            [number |-> data[k].number,
             body |-> IF Truthy(data[k].body)
                      THEN Text(truncateText(data[k].body.len, 500))
                      ELSE NoText,
             labels |-> data[k].labels,
             commentsCount |-> data[k].comments]]

fetchIssues(resp) ==
    LET data == githubFetch(resp, <<>>)
        keep == SelectIdx(Len(data), LAMBDA i : ~data[i].pull_request)
    IN  [k \in 1..Len(keep) |->
            LET issue == data[keep[k]]
            IN  [number |-> issue.number,
                 body |-> IF Truthy(issue.body)
                          THEN Text(truncateText(issue.body.len, 500))
                          ELSE NoText,
                 labels |-> issue.labels,
                 commentsCount |-> issue.comments]]

\* fetchPullRequests: bodies cut to 300
fetchPullRequests(resp) ==
    LET data == githubFetch(resp, <<>>)
    IN  [k \in 1..Len(data) |->
            [number |-> data[k].number,
             body |-> IF Truthy(data[k].body)
                      THEN Text(truncateText(data[k].body.len, 300))
                      ELSE NoText,
             draft |-> data[k].draft]]

\* fetchLanguages: data || {}
fetchLanguages(resp) == githubFetch(resp, <<>>)

NullIndex == [ok |-> FALSE]

\* the RepoIndex literal of indexRepository
RepoIndexOf(metadata, readme, contributing, fileTree, issues, pullRequests, languages, at) ==
    [ok |-> TRUE,
     fullName |-> metadata.full_name,
     stars |-> metadata.stargazers_count,
     openIssuesCount |-> metadata.open_issues_count,
     readme |-> IF Truthy(readme)
                THEN Text(truncateText(readme.len, 8000)) ELSE NoText,
     contributing |-> IF Truthy(contributing)
                      THEN Text(truncateText(contributing.len, 3000))
                      ELSE NoText,
     fileTree |-> fileTree,
     issues |-> issues,
     pullRequests |-> pullRequests,
     languages |-> languages,
     indexedAt |-> at]

\* indexRepository after parseGitHubUrl: up holds the responses of the seven
\* sub-fetches, at is new Date() when they have all settled
MutIndexNeedsReadme(up, at) ==
    LET metadata == fetchRepoMetadata(up.metadata)
        readme   == fetchFileContent(up.readme)
    IN  IF ~metadata.present \/ ~Truthy(readme)
        THEN NullIndex
        ELSE RepoIndexOf(metadata, readme,
                         fetchFileContent(up.contributing),
                         fetchFileTree(up.listing, <<>>, 0, up.reversed),
                         fetchIssues(up.issues),
                         fetchPullRequests(up.pulls),
                         fetchLanguages(up.languages), at)

indexRepository(up, at) ==
    LET metadata     == fetchRepoMetadata(up.metadata)
        readme       == fetchFileContent(up.readme)
        contributing == fetchFileContent(up.contributing)
        fileTree     == fetchFileTree(up.listing, <<>>, 0, up.reversed)
        issues       == fetchIssues(up.issues)
        pullRequests == fetchPullRequests(up.pulls)
        languages    == fetchLanguages(up.languages)
    IN  IF ~metadata.present
        THEN NullIndex
        ELSE RepoIndexOf(metadata, readme, contributing, fileTree, issues,
                         pullRequests, languages, at)

(***************************************************************************)
(* The upstream repository used as input                                   *)
(***************************************************************************)
Resp(kind, body) == [kind |-> kind, body |-> body]

MetadataBody ==
    [present |-> TRUE, full_name |-> "o/r", stargazers_count |-> 100,
     open_issues_count |-> 3]

FileBody(n) == [hasContent |-> TRUE, encoding |-> "base64", decodes |-> TRUE, len |-> n]

IssuesBody ==
    << [number |-> 1, body |-> Text(600), labels |-> <<"good first issue">>,
        comments |-> 2, pull_request |-> FALSE],
       [number |-> 2, body |-> Text(40), labels |-> <<>>,
        comments |-> 0, pull_request |-> TRUE],
       [number |-> 3, body |-> NoText, labels |-> <<"bug", "help wanted">>,
        comments |-> 0, pull_request |-> FALSE] >>

\* a listing that begins and ends with a pull request
IssuesBodyMixed ==
    << [number |-> 5, body |-> Text(40), labels |-> <<>>,
        comments |-> 1, pull_request |-> TRUE],
       [number |-> 6, body |-> Text(40), labels |-> <<"beginner">>,
        comments |-> 0, pull_request |-> FALSE],
       [number |-> 7, body |-> NoText, labels |-> <<>>,
        comments |-> 0, pull_request |-> TRUE] >>

PullsBody ==
    << [number |-> 2, body |-> Text(400), draft |-> FALSE] >>

LanguagesBody ==
    << [lang |-> "TypeScript", bytes |-> 900], [lang |-> "CSS", bytes |-> 100] >>

Item(name, type) == [name |-> name, type |-> type]

\* the directories of the repository and their listings
RepoDirs ==
    {<<>>, <<"src">>, <<"src", "lib">>, <<"src", "lib", "a">>,
     <<"src", "lib", "a", "b">>, <<"docs">>, <<"node_modules">>, <<".github">>}

RepoListing(path) ==
    CASE path = <<>> ->
            <<Item("README.md", "file"), Item("src", "dir"), Item("docs", "dir"),
              Item("node_modules", "dir"), Item(".github", "dir")>>
      [] path = <<"src">> -> <<Item("index.ts", "file"), Item("lib", "dir")>>
      [] path = <<"src", "lib">> -> <<Item("a", "dir")>>
      [] path = <<"src", "lib", "a">> -> <<Item("b", "dir")>>
      [] path = <<"src", "lib", "a", "b">> -> <<Item("deep.ts", "file")>>
      [] path = <<"docs">> -> <<Item("guide.md", "file")>>
      [] path = <<"node_modules">> -> <<Item("dep.js", "file")>>
      [] path = <<".github">> -> <<Item("ci.yml", "file")>>

\* the listing responses: rootKind for the root, srcKind for src, ok elsewhere
ListingOf(rootKind, srcKind) ==
    [path \in RepoDirs |->
        Resp(IF path = <<>> THEN rootKind
             ELSE IF path = <<"src">> THEN srcKind ELSE "ok",
             RepoListing(path))]

Upstream(meta, readme, contributing, rootKind, srcKind, issues, pulls, languages) ==
    [metadata |-> Resp(meta, MetadataBody),
     readme |-> readme,
     contributing |-> Resp(contributing, FileBody(100)),
     listing |-> ListingOf(rootKind, srcKind),
     reversed |-> FALSE,
     issues |-> Resp(issues, IssuesBody),
     pulls |-> Resp(pulls, PullsBody),
     languages |-> Resp(languages, LanguagesBody)]

\* a file, a file whose content atob rejects, a directory listing, an empty
\* file, an HTTP error, a fetch that throws
ReadmeResponses ==
    {Resp("ok", b) : b \in
        {FileBody(9000),
         [hasContent |-> TRUE, encoding |-> "base64", decodes |-> FALSE, len |-> 0],
         NoContent,
         [hasContent |-> FALSE, encoding |-> "base64", decodes |-> TRUE, len |-> 0]}}
        \cup {Resp("http_error", NoContent), Resp("network_error", NoContent)}

BuildInputs ==
    {[Upstream(m, rd, c, t, s, i, p, l) EXCEPT !.issues.body = b, !.reversed = rv] :
        m \in ResponseKinds, rd \in ReadmeResponses, c \in ResponseKinds,
        t \in ResponseKinds, s \in {"ok", "http_error"}, i \in ResponseKinds,
        p \in ResponseKinds, l \in ResponseKinds,
        b \in {IssuesBody, IssuesBodyMixed}, rv \in BOOLEAN}

(***************************************************************************)
(* Function-level specification: one snapshot build                        *)
(***************************************************************************)
InitBuild ==
    /\ MainIdle
    /\ fnPc = "in"
    /\ fnIn \in BuildInputs
    /\ fnOut = NullIndex

DoBuild ==
    /\ fnPc = "in"
    /\ fnPc' = "out"
    /\ fnOut' = indexRepository(fnIn, now)
    /\ UNCHANGED <<fnIn, mainVars>>

NextBuild == DoBuild

SpecBuild == InitBuild /\ [][NextBuild]_vars

\* C4: for every combination of outcomes of the seven sub-fetches,
\* indexRepository returns a snapshot exactly when the metadata fetch
\* succeeded, and every other failed sub-fetch leaves its field absent/empty.
C4_SnapshotIffMetadata ==
    fnPc = "out" =>
        /\ fnOut.ok <=> fnIn.metadata.kind = "ok"
        /\ fnOut.ok =>
              /\ fnIn.readme.kind # "ok" => fnOut.readme = NoText
              /\ fnIn.contributing.kind # "ok" => fnOut.contributing = NoText
              /\ fnIn.listing[<<>>].kind # "ok" => fnOut.fileTree = <<>>
              /\ fnIn.issues.kind # "ok" => fnOut.issues = <<>>
              /\ fnIn.pulls.kind # "ok" => fnOut.pullRequests = <<>>
              /\ fnIn.languages.kind # "ok" => fnOut.languages = <<>>

\* C4 witness: metadata succeeded, the six other sub-fetches failed, and a
\* snapshot was returned
C4_Witness ==
    /\ fnPc = "out"
    /\ fnOut.ok
    /\ fnIn.metadata.kind = "ok"
    /\ fnIn.readme.kind = "network_error"
    /\ fnIn.contributing.kind = "http_error"
    /\ fnIn.listing[<<>>].kind = "http_error"
    /\ fnIn.issues.kind = "network_error"
    /\ fnIn.pulls.kind = "http_error"
    /\ fnIn.languages.kind = "network_error"

\* C18: in every snapshot indexRepository returns, the stored README is at
\* most 8000 characters, the stored contributing guide at most 3000, every
\* stored issue body at most 500 and every stored pull-request body at most 300.
C18_StoredTextCaps ==
    (fnPc = "out" /\ fnOut.ok) =>
        /\ fnOut.readme.len <= 8000
        /\ fnOut.contributing.len <= 3000
        /\ \A i \in 1..Len(fnOut.issues) : fnOut.issues[i].body.len <= 500
        /\ \A i \in 1..Len(fnOut.pullRequests) : fnOut.pullRequests[i].body.len <= 300

\* C37: the file tree is the same whatever the order in which the listings
\* of sibling directories complete: the entries of a directory in listing
\* order, then the subtrees of its non-skipped sub-directories in listing
\* order.
C37_TreeSameForEveryOrder ==
    (fnPc = "out" /\ fnOut.ok) =>
        /\ fnOut.fileTree = fetchFileTree(fnIn.listing, <<>>, 0, FALSE)
        /\ (fnIn.listing[<<>>].kind = "ok" /\ fnIn.listing[<<"src">>].kind = "ok") =>
              fnOut.fileTree =
                  <<FileNode(<<"README.md">>), DirNode(<<"src">>), DirNode(<<"docs">>),
                    DirNode(<<"node_modules">>), DirNode(<<".github">>),
                    FileNode(<<"src", "index.ts">>), DirNode(<<"src", "lib">>),
                    DirNode(<<"src", "lib", "a">>), DirNode(<<"src", "lib", "a", "b">>),
                    FileNode(<<"docs", "guide.md">>)>>

\* C37 witness: the listing of docs completed before the listing of src,
\* and the tree holds the subtree of src before the subtree of docs
C37_Witness ==
    /\ fnPc = "out"
    /\ fnOut.ok
    /\ fnIn.reversed
    /\ fnIn.listing[<<>>].kind = "ok" /\ fnIn.listing[<<"src">>].kind = "ok"
    /\ Len(fnOut.fileTree) = 10
    /\ fnOut.fileTree[6].path = <<"src", "index.ts">>
    /\ fnOut.fileTree[10].path = <<"docs", "guide.md">>

\* the name is on the skip list or begins with '.'
IsSkipName(name) == name \in skipDirs \/ name \in DotNames

\* C27: fetchFileTree lists no directory deeper than 3 levels below the
\* root and no directory whose name is on the skip list or begins with '.';
\* a skipped directory is a directory node of the tree and nothing below a
\* skipped directory is.
C27_TreeBoundedAndSkipped ==
    fnPc = "out" =>
        LET calls == fetchFileTreeCalls(fnIn.listing, <<>>, 0)
            tree  == fetchFileTree(fnIn.listing, <<>>, 0, fnIn.reversed)
        IN  /\ \A c \in 1..Len(calls) :
                  /\ Len(calls[c]) <= 3
                  /\ \A j \in 1..Len(calls[c]) : ~IsSkipName(calls[c][j])
            /\ fnOut.ok => fnOut.fileTree = tree
            /\ \A n \in 1..Len(tree) :
                  /\ \A j \in 1..(Len(tree[n].path) - 1) : ~IsSkipName(tree[n].path[j])
                  /\ Len(tree[n].path) <= 4
            /\ \A c \in 1..Len(calls) :
                  fnIn.listing[calls[c]].kind = "ok" =>
                      \A i \in 1..Len(fnIn.listing[calls[c]].body) :
                          LET item == fnIn.listing[calls[c]].body[i]
                          IN  \E n \in 1..Len(tree) :
                                 /\ tree[n].path = calls[c] \o <<item.name>>
                                 /\ tree[n].type = item.type

\* C27 witness: the tree of a snapshot holds the skipped directories
\* node_modules and .github and the directory at depth 4, and no file below
\* any of them
C27_Witness ==
    /\ fnPc = "out"
    /\ fnOut.ok
    /\ \E n \in 1..Len(fnOut.fileTree) :
          fnOut.fileTree[n] = [path |-> <<"node_modules">>, type |-> "dir"]
    /\ \E n \in 1..Len(fnOut.fileTree) :
          fnOut.fileTree[n] = [path |-> <<".github">>, type |-> "dir"]
    /\ \E n \in 1..Len(fnOut.fileTree) :
          fnOut.fileTree[n] = [path |-> <<"src", "lib", "a", "b">>, type |-> "dir"]
    /\ \A n \in 1..Len(fnOut.fileTree) :
          fnOut.fileTree[n].path[Len(fnOut.fileTree[n].path)]
              \notin {"dep.js", "ci.yml", "deep.ts"}

\* C28: the issues of a snapshot are exactly the items of the issue listing
\* that are no pull request, in the order of the listing.
C28_IssuesExcludePulls ==
    (fnPc = "out" /\ fnOut.ok) =>
        LET data == IF fnIn.issues.kind = "ok" THEN fnIn.issues.body ELSE <<>>
            keep == SelectSeq(data, LAMBDA item : ~item.pull_request)
        IN  /\ Len(fnOut.issues) = Len(keep)
            /\ \A k \in 1..Len(keep) :
                  /\ fnOut.issues[k].number = keep[k].number
                  /\ fnOut.issues[k].labels = keep[k].labels

\* C28 witness: a listing that begins and ends with a pull request gave a
\* snapshot with the one issue between them
C28_Witness ==
    /\ fnPc = "out"
    /\ fnOut.ok
    /\ fnIn.issues.kind = "ok"
    /\ fnIn.issues.body = IssuesBodyMixed
    /\ Len(fnOut.issues) = 1
    /\ fnOut.issues[1].number = 6

(***************************************************************************)
(* Worker (index.ts): cache, clock, router and answer generator            *)
(***************************************************************************)
CACHE_TTL == 1800

\* the model observes the clock at the instants 0..Slack and around the TTL
Slack == 1

Instants == (0..Slack) \cup ((CACHE_TTL - 1)..(CACHE_TTL + Slack))

\* number of requests the worker handles, each possibly concurrent with the others
MaxReqs == 2

Reqs == 1..MaxReqs

\* the identifiers requests carry: two forms of one repository, and the bare form
UrlHost == HostText \o <<"o", "/", "r">>

UrlBare == <<"o", "/", "r">>

Urls == {UrlHost, (HttpsText \o HostText \o <<"o", "/", "r">>), UrlBare}

\* the identifiers that hold no "github.com/"
HostlessUrls == {u \in Urls : \A i \in 1..Len(u) : ~HasAt(u, HostText, i)}

\* what GitHub answers to the seven sub-fetches of one build
Worlds ==
    {Upstream("ok", Resp("ok", FileBody(9000)), "http_error", "ok", "ok", "ok",
              "network_error", "ok"),
     Upstream("http_error", Resp("http_error", NoContent), "http_error", "http_error",
              "ok", "http_error", "http_error", "http_error")}

\* cacheKey = `repo:${url}`
CacheKey(url) == <<"repo:">> \o url

\* CACHE_KV.get: the stored value, null when the key is absent
KVGet(store, key) ==
    IF key \in DOMAIN store THEN store[key].value ELSE NullIndex

\* CACHE_KV.put with expirationTtl: replaces the entry and sets its expiry
MutKVPutIfAbsent(store, key, value, ttl, at) ==
    IF key \in DOMAIN store
    THEN store
    ELSE [k \in DOMAIN store \cup {key} |->
            IF k = key THEN [value |-> value, expiry |-> at + ttl] ELSE store[k]]

KVPut(store, key, value, ttl, at) ==
    [k \in DOMAIN store \cup {key} |->
        IF k = key THEN [value |-> value, expiry |-> at + ttl] ELSE store[k]]

\* the store drops an entry when its expiry is reached
KVExpire(store, at) ==
    [k \in {j \in DOMAIN store : store[j].expiry > at} |-> store[k]]

\* `if (!index)` after getRepoIndex in handleQuestion
MutLookupAlwaysMissed(index) == TRUE

LookupMissed(index) == ~index.ok

\* `if (!index)` after indexRepository
MutBuildNeverFailed(index) == FALSE

BuildFailed(index) == ~index.ok

\* messages
InvalidUrlError == "Invalid GitHub repository URL"

NoPatError == "GITHUB_PAT environment variable is not set"

\* the TypeError of f.split('/') for an f that is no string
SplitTypeError == "f.split is not a function"

IndexFailure == "Failed to index repository"

AccessFailure == "I couldn't access this repository"

AnswerFallback == "I apologize, but I couldn't generate a response"

AnswerError == "An error occurred while generating the response"

ModelText == "model text"

\* the catch of fetch: status 500 with the error's message
ErrorResult(message) == [type |-> "error", status |-> 500, error |-> message]

AskResult(answer, thinking) ==
    [type |-> "ask", status |-> 200, answer |-> answer, thinking |-> thinking]

IndexResult(success, message, cached) ==
    [type |-> "index", status |-> IF success THEN 200 ELSE 500,
     success |-> success, message |-> message, cached |-> cached]

MutStatusNeverIndexed(index) == [type |-> "status", status |-> 200, indexed |-> FALSE]

StatusResult(index) == [type |-> "status", status |-> 200, indexed |-> index.ok]

\* the trace handleQuestion returns when the rebuild fails
FailureThinking(thinking) == <<"Error">>

\* a question is known by the patterns it matches
Questions ==
    {[issueOnly |-> TRUE, needsCode |-> TRUE],
     [issueOnly |-> FALSE, needsCode |-> TRUE]}

NoDecision == [needsFiles |-> FALSE, files |-> <<>>]

\* the routing model's reply: kind "throw" is a throw of AI.run, kind "text"
\* a text JSON.parse rejects (the empty text of an envelope without text
\* included), kind "json" a parsed object.  The worker is followed for a
\* throw, for an unparseable text, for an object that names two files and
\* for an object whose files array holds a number; strings tells whether
\* every element of files is a string.
RouteReplies ==
    {[kind |-> "throw", needsFiles |-> FALSE, isArray |-> FALSE, files |-> <<>>,
      strings |-> TRUE],
     [kind |-> "text", needsFiles |-> FALSE, isArray |-> FALSE, files |-> <<>>,
      strings |-> TRUE],
     [kind |-> "json", needsFiles |-> TRUE, isArray |-> TRUE,
      files |-> <<"src/index.ts", "README.md">>, strings |-> TRUE],
     [kind |-> "json", needsFiles |-> TRUE, isArray |-> TRUE,
      files |-> <<42>>, strings |-> FALSE]}

\* parseQueryAnalysis
MutParseQueryKeepsFlag(reply) ==
    [needsFiles |-> reply.kind # "throw",
     files |-> IF reply.isArray THEN reply.files ELSE <<>>]

parseQueryAnalysis(reply) ==
    IF reply.kind = "json"
    THEN [needsFiles |-> reply.needsFiles,
          files |-> IF reply.isArray THEN reply.files ELSE <<>>]
    ELSE NoDecision

\* analyzeQuery: the decision, and whether the model was called
MutAnalyzeCodeFirst(question, reply) ==
    IF ~question.needsCode THEN [decision |-> NoDecision, called |-> FALSE]
    ELSE IF reply.kind = "throw" THEN [decision |-> NoDecision, called |-> TRUE]
    ELSE [decision |-> parseQueryAnalysis(reply), called |-> TRUE]

analyzeQuery(question, reply) ==
    IF question.issueOnly THEN [decision |-> NoDecision, called |-> FALSE]
    ELSE IF ~question.needsCode THEN [decision |-> NoDecision, called |-> FALSE]
    ELSE IF reply.kind = "throw" THEN [decision |-> NoDecision, called |-> TRUE]
    ELSE [decision |-> parseQueryAnalysis(reply), called |-> TRUE]

\* the candidate paths analyzeQuery puts in the prompt: the first 100 paths
\* of the snapshot's file nodes
MaxCandidates == 100

CandidateFiles(fileTree) ==
    LET files == SelectIdx(Len(fileTree), LAMBDA i : fileTree[i].type = "file")
        n     == IF Len(files) < MaxCandidates THEN Len(files) ELSE MaxCandidates
    IN  [k \in 1..n |-> fileTree[files[k]].path]

(***************************************************************************)
(* Function-level specification: one routing decision                      *)
(***************************************************************************)
RoutePaths ==
    << <<"README.md">>, <<"src", "index.ts">>, <<"src", "a.ts">>,
       <<"src", "b.ts">>, <<"src", "c.ts">>, <<"src", "d.ts">>,
       <<"src", "e.ts">> >>

\* what the routing model can reply: a throw, a text JSON.parse rejects, the
\* JSON null, and objects with any needsFiles and any files
RouteInputs ==
    {[kind |-> k, needsFiles |-> FALSE, isArray |-> FALSE, files |-> <<>>] :
        k \in {"throw", "text", "null"}}
    \cup {[kind |-> "json", needsFiles |-> b, isArray |-> FALSE, files |-> <<>>] :
            b \in BOOLEAN}
    \cup {[kind |-> "json", needsFiles |-> b, isArray |-> TRUE, files |-> f] :
            b \in BOOLEAN,
            f \in {SubSeq(RoutePaths, 1, n) : n \in 0..Len(RoutePaths)}
                    \cup {<< <<"src", "ghost.ts">> >>, << <<"src">> >>}}

InitRoute ==
    /\ MainIdle
    /\ fnPc = "in"
    /\ fnIn \in [question : [issueOnly : BOOLEAN, needsCode : BOOLEAN],
                 fileTree : {<<>>,
                             <<DirNode(<<"src">>)>>,
                             <<DirNode(<<"src">>)>>
                                 \o [i \in 1..Len(RoutePaths) |-> FileNode(RoutePaths[i])]},
                 reply : RouteInputs]
    /\ fnOut = [decision |-> NoDecision, called |-> FALSE, candidates |-> <<>>]

DoRoute ==
    /\ fnPc = "in"
    /\ fnPc' = "out"
    /\ LET a == analyzeQuery(fnIn.question, fnIn.reply)
       IN  fnOut' = [decision |-> a.decision, called |-> a.called,
                     candidates |-> IF a.called THEN CandidateFiles(fnIn.fileTree)
                                    ELSE <<>>]
    /\ UNCHANGED <<fnIn, mainVars>>

NextRoute == DoRoute

SpecRoute == InitRoute /\ [][NextRoute]_vars

\* C11: analyzeQuery calls the model only for a question that matches no
\* issue/PR/contribution pattern and matches a needs-code pattern; for every
\* other question it returns needsFiles = false with no files and calls no
\* model.
C11_ModelOnlyInTheMiddle ==
    fnPc = "out" =>
        /\ fnOut.called <=> (~fnIn.question.issueOnly /\ fnIn.question.needsCode)
        /\ ~fnOut.called => fnOut.decision = NoDecision

\* C11 witness: a question matching both an issue pattern and a needs-code
\* pattern was routed without the model, although the reply would name files
C11_Witness ==
    /\ fnPc = "out"
    /\ fnIn.question.issueOnly
    /\ fnIn.question.needsCode
    /\ fnIn.reply.kind = "json"
    /\ fnIn.reply.needsFiles
    /\ Len(fnIn.reply.files) > 0
    /\ ~fnOut.called
    /\ fnOut.decision = NoDecision

\* C12: on the model-assisted path over a non-empty file tree the decision
\* holds at most 5 paths, each one of the candidates put in the prompt.
C12_AtMostFiveCandidates ==
    (fnPc = "out" /\ fnOut.called /\ Len(fnIn.fileTree) > 0) =>
        /\ Len(fnOut.decision.files) <= 5
        /\ \A i \in 1..Len(fnOut.decision.files) :
              \E k \in 1..Len(fnOut.candidates) :
                 fnOut.decision.files[i] = fnOut.candidates[k]

\* extractResponseText, as the text or '' (FALSE)
HasResponseText(reply) == reply \in {"string", "object"}

\* generateAnswer
MutAnswerNoFallback(reply) ==
    IF reply = "throw" THEN AnswerError
    ELSE IF HasResponseText(reply) THEN ModelText ELSE ""

generateAnswer(reply) ==
    IF reply = "throw" THEN AnswerError
    ELSE IF HasResponseText(reply) THEN ModelText ELSE AnswerFallback

\* paths.slice(0, 5)
MutFirstSix(paths) == SubSeq(paths, 1, IF Len(paths) < 6 THEN Len(paths) ELSE 6)

FirstFive(paths) == SubSeq(paths, 1, IF Len(paths) < 5 THEN Len(paths) ELSE 5)

\* the orders in which n concurrent fetches can complete
CompletionOrders(n) ==
    {f \in [1..n -> 1..n] : \A a, b \in 1..n : f[a] = f[b] => a = b}

\* fetchFilesContent: failed holds the attempted paths whose fetch or decode
\* fails, order the order in which the fetches of paths.slice(0, 5) complete;
\* each completion with content sets results[path], so that the keys of the
\* mapping are in completion order
fetchFilesContent(paths, failed, order) ==
    LET first == FirstFive(paths)
        completed == [k \in 1..Len(first) |-> first[order[k]]]
    IN  SelectSeq(completed, LAMBDA p : p \notin failed)

Range(seq) == {seq[i] : i \in 1..Len(seq)}

\* results[path] = truncateText(content, 6000)
FileBodyOf(content) == Text(truncateText(content.len, 6000))

(***************************************************************************)
(* Function-level specification: one fetch of file bodies                  *)
(***************************************************************************)
\* the requests: the first n of seven paths, and a response for every path.
\* The contents endpoint answers for the first requested path with a file, a
\* long file, an empty file, content atob rejects, a directory listing, an
\* HTTP error or a fetch that throws, and for each later path with a file or
\* an HTTP error
FilesInputs ==
    {[paths |-> SubSeq(RoutePaths, 1, n),
      resp |-> [p \in Range(RoutePaths) |->
                   IF p = RoutePaths[1] THEN first
                   ELSE IF p = RoutePaths[2] THEN later[1]
                   ELSE IF p = RoutePaths[3] THEN later[2]
                   ELSE IF p = RoutePaths[4] THEN later[3]
                   ELSE IF p = RoutePaths[5] THEN later[4]
                   ELSE Resp("ok", FileBody(200))]] :
        n \in 0..Len(RoutePaths),
        first \in {Resp("ok", FileBody(200)), Resp("ok", FileBody(7000)),
                   Resp("ok", [hasContent |-> FALSE, encoding |-> "base64",
                               decodes |-> TRUE, len |-> 0]),
                   Resp("ok", [hasContent |-> TRUE, encoding |-> "base64",
                               decodes |-> FALSE, len |-> 0]),
                   Resp("ok", NoContent), Resp("http_error", NoContent),
                   Resp("network_error", NoContent)},
        later \in [1..4 -> {Resp("ok", FileBody(200)), Resp("http_error", NoContent)}]}

\* the attempted paths whose content is null or ''
FailedPaths(paths, resp) ==
    {p \in Range(FirstFive(paths)) : ~Truthy(fetchFileContent(resp[p]))}

InitFiles ==
    /\ MainIdle
    /\ fnPc = "in"
    /\ fnIn \in FilesInputs
    /\ fnOut = [attempted |-> <<>>, keys |-> <<>>, bodies |-> <<>>, context |-> <<>>]

\* fetchFilesContent: one fetchFileContent per path of paths.slice(0, 5)
DoFiles ==
    /\ fnPc = "in"
    /\ fnPc' = "out"
    /\ \E order \in CompletionOrders(Len(FirstFive(fnIn.paths))) :
          LET keys == fetchFilesContent(fnIn.paths,
                                        FailedPaths(fnIn.paths, fnIn.resp), order)
          IN  fnOut' = [attempted |-> FirstFive(fnIn.paths),
                        keys |-> keys,
                        bodies |-> [k \in 1..Len(keys) |->
                                      FileBodyOf(fetchFileContent(fnIn.resp[keys[k]]))],
                        context |-> <<>>]
    /\ UNCHANGED <<fnIn, mainVars>>

\* C16: a request of more than 5 paths attempts exactly its first 5 paths,
\* in request order; a request of 5 or fewer paths attempts every path.
C16_FirstFiveAttempted ==
    fnPc = "out" =>
        /\ Len(fnIn.paths) > 5 => fnOut.attempted = SubSeq(fnIn.paths, 1, 5)
        /\ Len(fnIn.paths) <= 5 => fnOut.attempted = fnIn.paths

\* C16 witness: seven paths were requested, five attempted, and the five
\* bodies returned
C16_Witness ==
    /\ fnPc = "out"
    /\ Len(fnIn.paths) = 7
    /\ Len(fnOut.attempted) = 5
    /\ fnOut.keys = SubSeq(fnIn.paths, 1, 5)

\* the fetch of a path succeeded and its base64 content decodes
FetchedAndDecoded(resp) ==
    /\ resp.kind = "ok"
    /\ resp.body.encoding = "base64"
    /\ resp.body.decodes

\* C17: whatever attempted fetches fail, the mapping fetchFilesContent
\* returns has a key for an attempted path exactly when the fetch and the
\* base64 decode of that path succeeded, and no key outside the first five
\* requested paths.
C17_KeyIffFetchedAndDecoded ==
    fnPc = "out" =>
        /\ \A p \in Range(fnOut.attempted) :
              p \in Range(fnOut.keys) <=> FetchedAndDecoded(fnIn.resp[p])
        /\ Range(fnOut.keys) \subseteq Range(FirstFive(fnIn.paths))

(***************************************************************************)
(* Context Assembler (tools.ts): buildContext                              *)
(*                                                                         *)
(* The context is the sequence of the pushed sections, in order.  A        *)
(* section is a header (with its markdown level; the bold label lines of   *)
(* the language breakdown, the key files and the directories are headers   *)
(* of level 3), an item under the last header, or a note (a fixed          *)
(* instruction line).  An item carries what it is about in ref and its     *)
(* text, known by its length, in text.                                     *)
(***************************************************************************)
Header(name, level) ==
    [kind |-> "header", name |-> name, level |-> level, ref |-> <<>>, text |-> NoText]

Note(name) ==
    [kind |-> "note", name |-> name, level |-> 0, ref |-> <<>>, text |-> NoText]

Entry(name, ref, text) ==
    [kind |-> "item", name |-> name, level |-> 0, ref |-> ref, text |-> text]

\* seq.slice(0, n)
MutTakeAll(seq, n) == seq

Take(seq, n) == SubSeq(seq, 1, IF Len(seq) < n THEN Len(seq) ELSE n)

\* Object.values(index.languages).reduce((a, b) => a + b, 0)
RECURSIVE SumBytes(_)
SumBytes(languages) ==
    IF Len(languages) = 0 THEN 0
    ELSE Head(languages).bytes + SumBytes(Tail(languages))

\* sort((a, b) => b[1] - a[1]): descending by bytes, stable
RECURSIVE SortByBytes(_)
SortByBytes(languages) ==
    IF Len(languages) <= 1 THEN languages
    ELSE LET h    == Head(languages)
             rest == SortByBytes(Tail(languages))
             k    == Cardinality({i \in 1..Len(rest) : rest[i].bytes > h.bytes})
         IN  SubSeq(rest, 1, k) \o <<h>> \o SubSeq(rest, k + 1, Len(rest))

\* Math.round(bytes / totalBytes * 100)
RoundPercent(bytes, totalBytes) == (200 * bytes + totalBytes) \div (2 * totalBytes)

\* isImportantFile, over the file names of the model: the first segment
\* begins with readme, contributing, changelog or license; the last segment
\* ends with one of the manifest names or with .config.(js|ts|mjs); the path
\* is src/(index|main|app).* or index.*, main.*, app.*, .env.example; the
\* path holds .github/workflows/
isImportantFile(path) ==
    \/ path[1] \in {"README.md", "CONTRIBUTING.md", "CHANGELOG.md", "LICENSE"}
    \/ path[Len(path)] \in
          {"package.json", "tsconfig.json", "vite.config.ts", "requirements.txt",
           "pyproject.toml", "Cargo.toml", "go.mod", "Makefile", "Dockerfile"}
    \/ /\ Len(path) = 2
       /\ path[1] = "src"
       /\ path[2] \in {"index.ts", "index.js", "main.ts", "main.js", "app.ts", "app.js"}
    \/ /\ Len(path) = 1
       /\ path[1] \in {"index.ts", "index.js", "main.ts", "main.py", "app.ts",
                        "app.py", ".env.example"}
    \/ \E i \in 1..(Len(path) - 2) : path[i] = ".github" /\ path[i + 1] = "workflows"

\* Array.from(new Set(...)): the first occurrence of each value, in order
RECURSIVE Unique(_)
Unique(seq) ==
    IF Len(seq) = 0 THEN <<>>
    ELSE LET front == Unique(SubSeq(seq, 1, Len(seq) - 1))
             last  == seq[Len(seq)]
         IN  IF \E i \in 1..Len(front) : front[i] = last
             THEN front ELSE Append(front, last)

\* the labels whose lower case holds 'good first' or 'beginner', and those
\* whose lower case holds 'help wanted'
GoodFirstLabels == {"good first issue", "Good First Issue", "beginner"}

HelpWantedLabels == {"help wanted", "Help Wanted"}

HasLabel(issue, labels) == \E i \in 1..Len(issue.labels) : issue.labels[i] \in labels

\* formatIssue: the line of the issue and, when the body is truthy, its
\* excerpt truncateText(issue.body, 150) with the newlines replaced
formatIssue(name, issue) ==
    Entry(name, <<ToString(issue.number)>>,
          IF Truthy(issue.body) THEN Text(truncateText(issue.body.len, 150))
          ELSE NoText)

\* formatIssue for every issue of a list, under the header name
ListIssues(name, issues) ==
    [k \in 1..Len(issues) |-> formatIssue(name, issues[k])]

\* buildContext, section by section.  The first lines: name, description,
\* language, counts
HeadSection(index) ==
    <<Header("Repository", 2), Entry("Repository", <<index.fullName>>, NoText)>>

LanguagesSection(index) ==
    LET totalBytes == SumBytes(index.languages)
        langs == Take(SortByBytes(index.languages), 5)
    IN  IF totalBytes > 0
        THEN <<Header("Languages", 3)>>
             \o [k \in 1..Len(langs) |->
                    Entry("Languages",
                          <<langs[k].lang,
                            ToString(RoundPercent(langs[k].bytes, totalBytes))>>,
                          NoText)]
        ELSE <<>>

StructureSection(index) ==
    LET files == SelectSeq(index.fileTree, LAMBDA f : f.type = "file")
        importantFiles ==
            Take(SelectSeq(files, LAMBDA f : isImportantFile(f.path)), 30)
        dirNodes == SelectSeq(index.fileTree, LAMBDA f : f.type = "dir")
        dirs == Unique([i \in 1..Len(dirNodes) |-> dirNodes[i].path[1]])
        shownDirs == Take(dirs, 15)
    IN  <<Header("File Structure", 2)>>
        \o (IF Len(importantFiles) > 0
            THEN <<Header("Key files", 3)>>
                 \o [k \in 1..Len(importantFiles) |->
                        Entry("Key files", importantFiles[k].path, NoText)]
            ELSE <<>>)
        \o (IF Len(dirs) > 0
            THEN <<Header("Top-level directories", 3)>>
                 \o [k \in 1..Len(shownDirs) |->
                        Entry("Top-level directories", <<shownDirs[k]>>, NoText)]
            ELSE <<>>)

ReadmeSection(index) ==
    IF Truthy(index.readme)
    THEN <<Header("README (excerpt)", 2),
           Entry("README (excerpt)", <<>>,
                 Text(truncateText(index.readme.len, 2000)))>>
    ELSE <<>>

ContributingSection(index) ==
    IF Truthy(index.contributing)
    THEN <<Header("Contributing Guidelines (excerpt)", 2),
           Entry("Contributing Guidelines (excerpt)", <<>>,
                 Text(truncateText(index.contributing.len, 1000)))>>
    ELSE <<>>

MutIssuesExclusive(index) ==
    LET goodFirstIssues ==
            SelectSeq(index.issues, LAMBDA i : HasLabel(i, GoodFirstLabels))
        helpWanted ==
            SelectSeq(index.issues, LAMBDA i :
                HasLabel(i, HelpWantedLabels) /\ ~HasLabel(i, GoodFirstLabels))
    IN  IF Len(index.issues) > 0
        THEN <<Header("Open Issues", 2), Note("Open Issues")>>
             \o (IF Len(goodFirstIssues) > 0
                 THEN <<Header("Good First Issues", 3)>>
                      \o ListIssues("Good First Issues", Take(goodFirstIssues, 5))
                 ELSE <<>>)
             \o (IF Len(helpWanted) > 0
                 THEN <<Header("Help Wanted", 3)>>
                      \o ListIssues("Help Wanted", Take(helpWanted, 5))
                 ELSE <<>>)
             \o <<Header("Recent Issues", 3)>>
             \o ListIssues("Recent Issues", Take(index.issues, 10))
        ELSE <<>>

IssuesSection(index) ==
    LET goodFirstIssues ==
            SelectSeq(index.issues, LAMBDA i : HasLabel(i, GoodFirstLabels))
        helpWanted ==
            SelectSeq(index.issues, LAMBDA i : HasLabel(i, HelpWantedLabels))
    IN  IF Len(index.issues) > 0
        THEN <<Header("Open Issues", 2), Note("Open Issues")>>
             \o (IF Len(goodFirstIssues) > 0
                 THEN <<Header("Good First Issues", 3)>>
                      \o ListIssues("Good First Issues", Take(goodFirstIssues, 5))
                 ELSE <<>>)
             \o (IF Len(helpWanted) > 0
                 THEN <<Header("Help Wanted", 3)>>
                      \o ListIssues("Help Wanted", Take(helpWanted, 5))
                 ELSE <<>>)
             \o <<Header("Recent Issues", 3)>>
             \o ListIssues("Recent Issues", Take(index.issues, 10))
        ELSE <<>>

PullsSection(index) ==
    LET prs == Take(index.pullRequests, 5)
    IN  IF Len(index.pullRequests) > 0
        THEN <<Header("Open Pull Requests", 2), Note("Open Pull Requests")>>
             \o [k \in 1..Len(prs) |->
                    Entry("Open Pull Requests", <<ToString(prs[k].number)>>, NoText)]
        ELSE <<>>

\* additionalFiles lists the entries of the mapping in its key order, each
\* [path, content]
FileEntries(additionalFiles) ==
    ConcatAll([k \in 1..Len(additionalFiles) |->
                  <<Header("File", 3),
                    Entry("File", additionalFiles[k].path, additionalFiles[k].content)>>])

FilesSection(additionalFiles) ==
    IF Len(additionalFiles) > 0
    THEN <<Header("File Contents", 2)>> \o FileEntries(additionalFiles)
    ELSE <<Header("Note: No file contents loaded", 2),
           Note("Note: No file contents loaded")>>

\* buildContext: sections.join of the sections, in the order of the pushes
MutContextReadmeFirst(index, additionalFiles) ==
    ReadmeSection(index) \o HeadSection(index) \o LanguagesSection(index)
        \o StructureSection(index) \o ContributingSection(index)
        \o IssuesSection(index) \o PullsSection(index)
        \o FilesSection(additionalFiles)

MutContextCounts(index, additionalFiles) ==
    HeadSection(index)
        \o (IF fnPc = "in" THEN LanguagesSection(index) ELSE <<>>)
        \o StructureSection(index) \o ReadmeSection(index)
        \o ContributingSection(index) \o IssuesSection(index)
        \o PullsSection(index) \o FilesSection(additionalFiles)

buildContext(index, additionalFiles) ==
    HeadSection(index) \o LanguagesSection(index) \o StructureSection(index)
        \o ReadmeSection(index) \o ContributingSection(index)
        \o IssuesSection(index) \o PullsSection(index)
        \o FilesSection(additionalFiles)

(***************************************************************************)
(* Function-level specification: the context of one question and its      *)
(* answer (buildContext, then generateAnswer)                              *)
(***************************************************************************)
\* a tree whose files are not important and that has no directory
PlainTree == <<FileNode(<<"notes.txt">>)>>

\* the snapshots indexRepository builds from a README of 0, 1500 or 9000
\* characters, a contributing guide of 0 or 3500, three file trees, and the
\* issues, pull requests and languages present or absent
\* a repository beyond every cap of buildContext: 6 languages, 31 key files
\* in 16 top-level directories, 11 issues of which the first 6 are labelled
\* both good first issue and help wanted and the seventh beginner, 6 pull
\* requests
LargeIndex ==
    LET languages == [i \in 1..6 |-> [lang |-> ToString(i), bytes |-> 10 * i]]
        tree == [i \in 1..16 |-> DirNode(<<ToString(i)>>)]
                    \o [i \in 1..31 |-> FileNode(<<ToString(i), "package.json">>)]
        issuesBody ==
            [i \in 1..11 |->
                [number |-> i, body |-> Text(10),
                 labels |-> IF i <= 6 THEN <<"Good First Issue", "help wanted">>
                            ELSE IF i = 7 THEN <<"beginner">> ELSE <<>>,
                 comments |-> 0, pull_request |-> FALSE]]
        pullsBody == [i \in 1..6 |-> [number |-> 20 + i, body |-> NoText, draft |-> FALSE]]
    IN  RepoIndexOf(MetadataBody, Text(1500), NoText, tree,
                    fetchIssues(Resp("ok", issuesBody)),
                    fetchPullRequests(Resp("ok", pullsBody)), languages, 0)

ContextIndexes ==
    {RepoIndexOf(MetadataBody, rd, cg, tree, issues, pulls, langs, 0) :
        rd \in {NoText, Text(1500), Text(9000)},
        cg \in {NoText, Text(3500)},
        tree \in {<<>>, PlainTree, fetchFileTree(ListingOf("ok", "ok"), <<>>, 0, FALSE)},
        issues \in {<<>>, fetchIssues(Resp("ok", IssuesBody)),
                    fetchIssues(Resp("ok", IssuesBodyMixed))},
        pulls \in {<<>>, fetchPullRequests(Resp("ok", PullsBody))},
        langs \in {<<>>, LanguagesBody}}
        \cup {LargeIndex}

\* the mappings fetchFilesContent returns: no file, a long file, two files
ContextFiles ==
    {<<>>,
     <<[path |-> <<"src", "index.ts">>, content |-> FileBodyOf(Text(7000))]>>,
     <<[path |-> <<"README.md">>, content |-> FileBodyOf(Text(200))],
       [path |-> <<"src", "index.ts">>, content |-> FileBodyOf(Text(7000))]>>}

InitAssemble ==
    /\ MainIdle
    /\ fnPc = "in"
    /\ fnIn \in [index : ContextIndexes, additionalFiles : ContextFiles,
                  reply : {"throw", "string", "object", "empty", "object_empty", "object_other", "null"}]
    /\ fnOut = [context |-> <<>>, answer |-> "", again |-> <<>>]

DoContext ==
    /\ fnPc = "in"
    /\ fnPc' = "context"
    /\ fnOut' = [fnOut EXCEPT !.context = buildContext(fnIn.index, fnIn.additionalFiles)]
    /\ UNCHANGED <<fnIn, mainVars>>

DoAnswer ==
    /\ fnPc = "context"
    /\ fnPc' = "out"
    /\ fnOut' = [fnOut EXCEPT !.answer = generateAnswer(fnIn.reply)]
    /\ UNCHANGED <<fnIn, mainVars>>

\* buildContext once more on the same snapshot and the same mapping
DoContextAgain ==
    /\ fnPc = "out"
    /\ fnPc' = "twice"
    /\ fnOut' = [fnOut EXCEPT !.again = buildContext(fnIn.index, fnIn.additionalFiles)]
    /\ UNCHANGED <<fnIn, mainVars>>

NextAssemble == DoContext \/ DoAnswer \/ DoContextAgain

SpecAssemble == InitAssemble /\ [][NextAssemble]_vars

\* C15: generateAnswer returns a non-empty string for every envelope: the
\* error message when the model call throws, the fallback message when the
\* envelope yields no text, the text otherwise.
C15_AnswerNeverEmpty ==
    fnPc = "out" =>
        /\ fnOut.answer # ""
        /\ fnIn.reply = "throw" => fnOut.answer = AnswerError
        /\ fnIn.reply \in {"empty", "object_empty", "object_other", "null"} =>
              fnOut.answer = AnswerFallback
        /\ fnIn.reply \in {"string", "object"} => fnOut.answer = ModelText

\* C15 witness: the envelope was the empty string and the fallback message
\* was returned
C15_Witness ==
    /\ fnPc = "out"
    /\ fnIn.reply = "empty"
    /\ fnOut.answer = AnswerFallback

IssueSections == {"Good First Issues", "Help Wanted", "Recent Issues"}

\* C19: in every assembled context the README excerpt is at most 2000
\* characters, the contributing excerpt at most 1000, the body excerpt of
\* every issue line at most 150 and every file body at most 6000.
C19_ContextCaps ==
    fnPc # "in" =>
        \A i \in 1..Len(fnOut.context) :
            LET e == fnOut.context[i]
            IN  e.kind = "item" =>
                  /\ e.name = "README (excerpt)" => e.text.len <= 2000
                  /\ e.name = "Contributing Guidelines (excerpt)" => e.text.len <= 1000
                  /\ e.name \in IssueSections => e.text.len <= 150
                  /\ e.name = "File" => e.text.len <= 6000

\* the headers of the sections that present data of the snapshot
DataHeaders ==
    {"Languages", "File Structure", "Key files", "Top-level directories",
     "README (excerpt)", "Contributing Guidelines (excerpt)", "Open Issues",
     "Good First Issues", "Help Wanted", "Recent Issues", "Open Pull Requests"}

\* an item follows header i before the next header of its level or above
HasItemUnder(context, i) ==
    \E j \in (i + 1)..Len(context) :
        /\ context[j].kind = "item"
        /\ \A k \in (i + 1)..(j - 1) :
              \/ context[k].kind \in {"note", "item"}
              \/ context[k].kind = "header" /\ context[k].level > context[i].level

\* C20: buildContext emits no header of a data section (languages, file
\* structure, README, contributing, issues and their sub-sections, pull
\* requests) without at least one item under it.
C20_NoEmptySection ==
    fnPc # "in" =>
        \A i \in 1..Len(fnOut.context) :
            (fnOut.context[i].kind = "header" /\ fnOut.context[i].name \in DataHeaders)
                => HasItemUnder(fnOut.context, i)

\* the items the context lists under the header name
ItemsOf(context, name) ==
    SelectSeq(context, LAMBDA e : e.kind = "item" /\ e.name = name)

Least(a, b) == IF a < b THEN a ELSE b

\* C21: whatever the size of the snapshot, the context lists at most 5
\* languages, 30 key files, 15 top-level directories, 5 good-first issues, 5
\* help-wanted issues, 10 recent issues and 5 pull requests; a longer input
\* is cut to its first entries and the context is still produced.
C21_ListCaps ==
    fnPc # "in" =>
        LET c == fnOut.context
            x == fnIn.index
        IN  /\ Len(c) > 0
            /\ Len(ItemsOf(c, "Languages")) <= 5
            /\ Len(ItemsOf(c, "Key files")) <= 30
            /\ Len(ItemsOf(c, "Top-level directories")) <= 15
            /\ Len(ItemsOf(c, "Good First Issues")) <= 5
            /\ Len(ItemsOf(c, "Help Wanted")) <= 5
            /\ Len(ItemsOf(c, "Recent Issues")) = Least(10, Len(x.issues))
            /\ Len(ItemsOf(c, "Open Pull Requests")) = Least(5, Len(x.pullRequests))
            /\ \A k \in 1..Len(ItemsOf(c, "Recent Issues")) :
                  ItemsOf(c, "Recent Issues")[k].ref = <<ToString(x.issues[k].number)>>

\* C21 witness: the context of the repository that exceeds every cap holds
\* exactly the capped number of entries in each list
C21_Witness ==
    /\ fnPc # "in"
    /\ fnIn.index = LargeIndex
    /\ Len(ItemsOf(fnOut.context, "Languages")) = 5
    /\ Len(ItemsOf(fnOut.context, "Key files")) = 30
    /\ Len(ItemsOf(fnOut.context, "Top-level directories")) = 15
    /\ Len(ItemsOf(fnOut.context, "Good First Issues")) = 5
    /\ Len(ItemsOf(fnOut.context, "Help Wanted")) = 5
    /\ Len(ItemsOf(fnOut.context, "Recent Issues")) = 10
    /\ Len(ItemsOf(fnOut.context, "Open Pull Requests")) = 5

\* the fixed order of the sections
SectionOrder ==
    <<"Repository", "Languages", "File Structure", "Key files",
      "Top-level directories", "README (excerpt)",
      "Contributing Guidelines (excerpt)", "Open Issues", "Good First Issues",
      "Help Wanted", "Recent Issues", "Open Pull Requests", "File Contents",
      "Note: No file contents loaded">>

Rank(name) == CHOOSE k \in 1..Len(SectionOrder) : SectionOrder[k] = name

\* the headers of the context, the per-file headers of File Contents aside
SectionHeaders(context) ==
    SelectSeq(context, LAMBDA e : e.kind = "header" /\ e.name # "File")

\* C22: the sections present in a context are in the fixed order header,
\* languages, file structure, README, contributing, issues (good first, help
\* wanted, recent), pull requests, file contents or the no-file note,
\* whatever the snapshot holds; every item is under the header of its section.
C22_FixedSectionOrder ==
    fnPc # "in" =>
        LET c == fnOut.context
            h == SectionHeaders(c)
        IN  /\ h[1].name = "Repository"
            /\ h[Len(h)].name \in {"File Contents", "Note: No file contents loaded"}
            /\ \A i, j \in 1..Len(h) : i < j => Rank(h[i].name) < Rank(h[j].name)
            /\ \A i \in 1..Len(c) :
                  c[i].kind = "item" =>
                      \E k \in 1..(i - 1) :
                          /\ c[k].kind = "header"
                          /\ c[k].name = c[i].name
                          /\ \A m \in (k + 1)..(i - 1) : c[m].kind # "header"

\* C22 witness: a context that holds every section, file contents included
C22_Witness ==
    /\ fnPc # "in"
    /\ Len(SectionHeaders(fnOut.context)) = Len(SectionOrder) - 1
    /\ Len(ItemsOf(fnOut.context, "File")) = 2

\* the goodFirstIssues count of the indexing stats: the issues with a label
\* whose lower case holds 'good first'
goodFirstCount(index) ==
    Len(SelectSeq(index.issues,
                  LAMBDA i : HasLabel(i, {"good first issue", "Good First Issue"})))

\* C24: the Good First Issues section lists min(5, k) entries, k being the
\* number of issues with a label that holds "good first" (the count of the
\* indexing stats), and is absent when k = 0.
C24_GoodFirstSectionCount ==
    fnPc # "in" =>
        LET k == goodFirstCount(fnIn.index)
        IN  /\ Len(ItemsOf(fnOut.context, "Good First Issues")) = Least(5, k)
            /\ k = 0 => \A i \in 1..Len(fnOut.context) :
                           fnOut.context[i].name # "Good First Issues"

\* the context lists the issue of that number under the header name
Listed(context, name, number) ==
    \E i \in 1..Len(context) :
        /\ context[i].kind = "item"
        /\ context[i].name = name
        /\ context[i].ref = <<ToString(number)>>

\* C25: an issue is listed under every section whose rule it matches: under
\* Good First Issues when it is among the first 5 good-first issues, under
\* Help Wanted when among the first 5 help-wanted issues, under Recent
\* Issues when among the first 10 issues, whatever the other sections list.
C25_NonExclusiveCategories ==
    fnPc # "in" =>
        LET issues == fnIn.index.issues
            Before(p, labels) ==
                Cardinality({q \in 1..p : HasLabel(issues[q], labels)})
        IN  \A p \in 1..Len(issues) :
                /\ (HasLabel(issues[p], GoodFirstLabels) /\ Before(p, GoodFirstLabels) <= 5)
                      => Listed(fnOut.context, "Good First Issues", issues[p].number)
                /\ (HasLabel(issues[p], HelpWantedLabels) /\ Before(p, HelpWantedLabels) <= 5)
                      => Listed(fnOut.context, "Help Wanted", issues[p].number)
                /\ p <= 10 => Listed(fnOut.context, "Recent Issues", issues[p].number)

\* C25 witness: an issue labelled both good first issue and help wanted is
\* listed under the three sections
C25_Witness ==
    /\ fnPc # "in"
    /\ \E p \in 1..Len(fnIn.index.issues) :
          /\ HasLabel(fnIn.index.issues[p], GoodFirstLabels)
          /\ HasLabel(fnIn.index.issues[p], HelpWantedLabels)
          /\ Listed(fnOut.context, "Good First Issues", fnIn.index.issues[p].number)
          /\ Listed(fnOut.context, "Help Wanted", fnIn.index.issues[p].number)
          /\ Listed(fnOut.context, "Recent Issues", fnIn.index.issues[p].number)

DoFilesContext ==
    /\ fnPc = "out"
    /\ fnPc' = "context"
    /\ LET index == RepoIndexOf(MetadataBody, Text(1500), NoText, PlainTree,
                                fetchIssues(Resp("ok", IssuesBody)), <<>>,
                                LanguagesBody, 0)
           additionalFiles == [k \in 1..Len(fnOut.keys) |->
                                  [path |-> fnOut.keys[k], content |-> fnOut.bodies[k]]]
       IN  fnOut' = [fnOut EXCEPT !.context = buildContext(index, additionalFiles)]
    /\ UNCHANGED <<fnIn, mainVars>>

NextFiles == DoFiles \/ DoFilesContext

SpecFiles == InitFiles /\ [][NextFiles]_vars

HasHeader(context, name) ==
    \E i \in 1..Len(context) : context[i].kind = "header" /\ context[i].name = name

\* C23: the context holds exactly one of the File Contents section and the
\* no-file-contents note: File Contents if and only if the body of at least
\* one attempted path was fetched and decoded; when every fetch failed it
\* holds the note.
C23_FileContentsIffFetched ==
    fnPc = "context" =>
        LET fetched == \E p \in Range(fnOut.attempted) : FetchedAndDecoded(fnIn.resp[p])
        IN  /\ HasHeader(fnOut.context, "File Contents")
                  # HasHeader(fnOut.context, "Note: No file contents loaded")
            /\ HasHeader(fnOut.context, "File Contents") <=> fetched

\* C36: whatever the order in which the concurrent file-body fetches
\* complete, the File Contents section lists the fetched files in the order
\* of the request, so that the context is the same for every order.
C36_ContextSameForEveryCompletionOrder ==
    fnPc = "context" =>
        LET listed == ItemsOf(fnOut.context, "File")
            fetched == SelectSeq(fnOut.attempted,
                                 LAMBDA p : p \notin FailedPaths(fnIn.paths, fnIn.resp))
        IN  [k \in 1..Len(listed) |-> listed[k].ref] = fetched

(***************************************************************************)
(* The page: handleIndexRepo, the Change button, handleSendMessage and its *)
(* timers.  fnOut holds the React state, fnIn what is in flight            *)
(***************************************************************************)
\* String.prototype.trim
RECURSIVE trim(_)
trim(s) ==
    IF s = <<>> THEN s
    ELSE IF Head(s) \in SpaceChars THEN trim(Tail(s))
    ELSE IF s[Len(s)] \in SpaceChars THEN trim(SubSeq(s, 1, Len(s) - 1))
    ELSE s

\* what the user types in the URL field: nothing, a blank, a repository,
\* a repository with a trailing blank
TypedUrls == {<<>>, <<" ">>, UrlBare, UrlBare \o <<" ">>}

\* the delays of the three setTimeout calls and the steps they add
StepDelays == <<600, 1400, 2200>>

StepNames == <<"Analyzing question...", "Building context...", "Generating response...">>

TickMs == 200

MaxQuestions == 2

MaxIndexAttempts == 2

InitPage ==
    /\ MainIdle
    /\ fnPc = "page"
    /\ fnIn = [timers |-> {}, indexCall |-> FALSE, askCall |-> 0,
               asked |-> 0, sent |-> <<>>, outcomes |-> <<>>]
    /\ fnOut = [indexingPhase |-> "idle", url |-> <<>>, isIndexing |-> FALSE,
                error |-> "", isWaiting |-> FALSE, currentThinking |-> <<>>,
                messages |-> <<>>, repoStats |-> FALSE]

\* onChange of the URL field, which is disabled while isIndexing
SetUrl(u) ==
    /\ fnPc = "page"
    /\ fnOut.indexingPhase = "idle"
    /\ ~fnOut.isIndexing
    /\ u # fnOut.url
    /\ fnOut' = [fnOut EXCEPT !.url = u, !.error = ""]
    /\ UNCHANGED <<fnPc, fnIn, mainVars>>

\* handleIndexRepo up to the await of fetch('/api/index-repo'); the form is
\* rendered in phase idle and its button is disabled while isIndexing
HandleIndexRepo ==
    /\ fnPc = "page"
    /\ fnOut.indexingPhase = "idle"
    /\ ~fnOut.isIndexing
    /\ Len(fnIn.sent) < MaxIndexAttempts
    /\ IF trim(fnOut.url) = <<>>
       THEN /\ fnOut' = [fnOut EXCEPT !.error = "Please enter a GitHub URL or repository"]
            /\ UNCHANGED fnIn
       ELSE IF ~validateGitHubUrl(fnOut.url)
       THEN /\ fnOut' = [fnOut EXCEPT !.error = "Invalid GitHub URL format"]
            /\ UNCHANGED fnIn
       ELSE /\ fnOut' = [fnOut EXCEPT !.error = "", !.isIndexing = TRUE,
                                      !.indexingPhase = "indexing"]
            /\ fnIn' = [fnIn EXCEPT !.indexCall = TRUE, !.sent = Append(@, fnOut.url)]
    /\ UNCHANGED <<fnPc, mainVars>>

MutPhaseIndexedAlways(outcome) == "indexed"

\* the phase handleIndexRepo sets once the request has settled: indexed
\* past the throw of !data.success, idle in the catch block
PhaseAfter(outcome) == IF outcome = "success" THEN "indexed" ELSE "idle"

\* handleIndexRepo from the response on: success with stats, success: false
\* with a message, the {error} body of a 500, a fetch or a json() that throws
IndexResponse(outcome) ==
    /\ fnPc = "page"
    /\ fnIn.indexCall
    /\ fnIn' = [fnIn EXCEPT !.indexCall = FALSE, !.outcomes = Append(@, outcome)]
    /\ fnOut' =
          IF outcome = "success"
          THEN [fnOut EXCEPT !.repoStats = TRUE, !.indexingPhase = PhaseAfter(outcome),
                             !.messages = <<[q |-> 0, type |-> "system",
                                             content |-> "welcome"]>>,
                             !.isIndexing = FALSE]
          ELSE [fnOut EXCEPT !.error = IF outcome = "throw" THEN "Failed to fetch"
                                       ELSE IndexFailure,
                             !.indexingPhase = PhaseAfter(outcome),
                             !.isIndexing = FALSE]
    /\ UNCHANGED <<fnPc, mainVars>>

\* the Change button of the chat view, which is rendered whenever the phase
\* is not idle
Change ==
    /\ fnPc = "page"
    /\ fnOut.indexingPhase # "idle"
    /\ fnOut' = [fnOut EXCEPT !.indexingPhase = "idle", !.messages = <<>>,
                              !.url = <<>>, !.repoStats = FALSE]
    /\ UNCHANGED <<fnPc, fnIn, mainVars>>

\* handleSendMessage up to the await of fetch('/api/ask'), for a non-blank
\* input: the user message, the indicator, the placeholder and the three
\* timers
HandleSendMessage ==
    /\ fnPc = "page"
    /\ fnOut.indexingPhase # "idle"
    /\ ~fnOut.isWaiting
    /\ fnIn.asked < MaxQuestions
    /\ LET q == fnIn.asked + 1
       IN  /\ fnOut' = [fnOut EXCEPT
                           !.isWaiting = TRUE,
                           !.currentThinking =
                               <<[q |-> q, step |-> "Loading repository data..."]>>,
                           !.messages = @ \o <<[q |-> q, type |-> "user", content |-> "question"],
                                               [q |-> q, type |-> "assistant", content |-> ""]>>]
           /\ fnIn' = [fnIn EXCEPT
                          !.asked = q,
                          !.askCall = q,
                          !.timers = @ \cup {[q |-> q, step |-> StepNames[k],
                                              left |-> StepDelays[k]] :
                                                k \in 1..Len(StepDelays)}]
    /\ UNCHANGED <<fnPc, mainVars>>

\* a timer callback: setCurrentThinking(prev => [...prev, step])
Timer(t) ==
    /\ fnPc = "page"
    /\ t \in fnIn.timers
    /\ t.left <= 0
    /\ fnIn' = [fnIn EXCEPT !.timers = @ \ {t}]
    /\ fnOut' = [fnOut EXCEPT !.currentThinking = Append(@, [q |-> t.q, step |-> t.step])]
    /\ UNCHANGED <<fnPc, mainVars>>

\* handleSendMessage from the response on: the answer, or a fetch or a
\* json() that throws
AskResponse(outcome) ==
    /\ fnPc = "page"
    /\ fnIn.askCall # 0
    /\ fnIn' = [fnIn EXCEPT !.askCall = 0]
    /\ fnOut' = [fnOut EXCEPT
                    !.currentThinking = <<>>,
                    !.isWaiting = FALSE,
                    !.messages = [i \in 1..Len(@) |->
                                     IF @[i].q = fnIn.askCall /\ @[i].type = "assistant"
                                     THEN [q |-> @[i].q,
                                           type |-> IF outcome = "throw" THEN "system"
                                                    ELSE "assistant",
                                           content |-> outcome]
                                     ELSE @[i]]]
    /\ UNCHANGED <<fnPc, mainVars>>

\* time passes, counted as what is left of each pending timer; a timer
\* that is due runs first
PageTick ==
    /\ fnPc = "page"
    /\ fnIn.timers # {}
    /\ \A t \in fnIn.timers : t.left > 0
    /\ fnIn' = [fnIn EXCEPT !.timers = {[t EXCEPT !.left = @ - TickMs] : t \in fnIn.timers}]
    /\ UNCHANGED <<fnPc, fnOut, mainVars>>

NextPage ==
    \/ \E u \in TypedUrls : SetUrl(u)
    \/ HandleIndexRepo
    \/ \E outcome \in {"success", "failed", "error", "throw"} : IndexResponse(outcome)
    \/ Change
    \/ HandleSendMessage
    \/ \E t \in fnIn.timers : Timer(t)
    \/ \E outcome \in {"answer", "throw"} : AskResponse(outcome)
    \/ PageTick

SpecPage == InitPage /\ [][NextPage]_vars

\* C38: the phase is indexed only after a response that reported success;
\* a response that reports a failure leaves the phase idle with an error
\* message; isIndexing is true exactly while a request is in flight; and a
\* request is sent only for a URL that is not blank and that
\* validateGitHubUrl accepts.
C38_IndexedOnlyAfterSuccess ==
    /\ [](/\ fnOut.indexingPhase = "indexed" =>
                /\ Len(fnIn.outcomes) > 0
                /\ fnIn.outcomes[Len(fnIn.outcomes)] = "success"
          /\ fnOut.isIndexing <=> fnIn.indexCall
          /\ fnOut.indexingPhase = "indexing" => fnIn.indexCall
          /\ \A i \in 1..Len(fnIn.sent) :
                trim(fnIn.sent[i]) # <<>> /\ validateGitHubUrl(fnIn.sent[i]))
    /\ [][/\ (fnOut.indexingPhase # "indexed" /\ fnOut'.indexingPhase = "indexed") =>
                /\ fnIn.indexCall /\ ~fnIn'.indexCall
                /\ fnIn'.outcomes[Len(fnIn'.outcomes)] = "success"
          /\ (fnIn.indexCall /\ ~fnIn'.indexCall
                /\ fnIn'.outcomes[Len(fnIn'.outcomes)] # "success") =>
                /\ fnOut'.indexingPhase = "idle"
                /\ fnOut'.error # ""
                /\ ~fnOut'.isIndexing
          /\ Len(fnIn'.sent) > Len(fnIn.sent) =>
                /\ fnOut.indexingPhase = "idle" /\ fnOut'.indexingPhase = "indexing"
                /\ fnOut'.isIndexing]_vars

\* C38 witness: a first request failed, a second one succeeded, and the
\* phase is indexed with isIndexing false
C38_Witness ==
    /\ fnPc = "page"
    /\ fnIn.outcomes = <<"failed", "success">>
    /\ fnOut.indexingPhase = "indexed"
    /\ ~fnOut.isIndexing
    /\ fnOut.repoStats

\* the steps the ThinkingIndicator shows: currentThinking, rendered in the
\* place of an assistant message whose content is empty
Indicator ==
    IF \E i \in 1..Len(fnOut.messages) :
          fnOut.messages[i].type = "assistant" /\ fnOut.messages[i].content = ""
    THEN fnOut.currentThinking
    ELSE <<>>

\* C39: the indicator of the question in progress shows steps of that
\* question only, each at most once.
C39_IndicatorOfOneQuestion ==
    fnPc = "page" =>
        /\ \A i \in 1..Len(Indicator) : Indicator[i].q = fnIn.askCall
        /\ \A i, j \in 1..Len(Indicator) :
              Indicator[i].step = Indicator[j].step => i = j

IdleReq ==
    [pc |-> "idle", kind |-> "none", url |-> <<>>, pat |-> FALSE,
     index |-> NullIndex,
     hit |-> FALSE, age |-> 0, thinking |-> <<>>, log |-> <<>>,
     routed |-> "none", decision |-> NoDecision, files |-> <<>>,
     result |-> [type |-> "none"]]

(***************************************************************************)
(* The worker as a state machine: one action per request step that ends at *)
(* an await of the store, of GitHub or of the model                        *)
(***************************************************************************)
Init ==
    /\ now = 0
    /\ hasPat \in BOOLEAN
    /\ kv = [k \in {} |-> NullIndex]
    /\ puts = <<>>
    /\ req = [r \in Reqs |-> IdleReq]
    /\ fnPc = "none"
    /\ fnIn = 0
    /\ fnOut = 0

Finish(rec, result) == [rec EXCEPT !.pc = "done", !.result = result]

\* createHeaders, then parseGitHubUrl at the head of indexRepository: the
\* first throw ends the request in the catch of fetch; otherwise the seven
\* sub-fetches are issued
MutStartBuildNoHeaders(rec) ==
    IF ~parseGitHubUrl(rec.url).ok THEN Finish(rec, ErrorResult(InvalidUrlError))
    ELSE [rec EXCEPT !.pc = "build"]

StartBuild(rec) ==
    IF ~rec.pat THEN Finish(rec, ErrorResult(NoPatError))
    ELSE IF ~parseGitHubUrl(rec.url).ok THEN Finish(rec, ErrorResult(InvalidUrlError))
    ELSE [rec EXCEPT !.pc = "build"]

\* Date.now() advances; the store evicts what has expired
Tick(t) ==
    /\ t \in Instants
    /\ t > now
    /\ now' = t
    /\ kv' = KVExpire(kv, t)
    /\ UNCHANGED <<hasPat, puts, req, fnVars>>

\* the GITHUB_PAT secret is deleted from the deployment; CACHE_KV keeps its
\* entries, and a request keeps the env it arrived with
RemovePat ==
    /\ hasPat
    /\ \E r \in Reqs : req[r].pc = "idle"
    /\ hasPat' = FALSE
    /\ UNCHANGED <<now, kv, puts, req, fnVars>>

\* /api/repo-status
RepoStatus(r, u) ==
    /\ req[r].pc = "idle"
    /\ req' = [req EXCEPT ![r] =
                  Finish([@ EXCEPT !.kind = "status", !.url = u, !.pat = hasPat,
                                   !.age = IF KVGet(kv, CacheKey(u)).ok
                                           THEN now - KVGet(kv, CacheKey(u)).indexedAt
                                           ELSE 0,
                                   !.log = <<"kv.get">>],
                         StatusResult(KVGet(kv, CacheKey(u))))]
    /\ UNCHANGED <<now, hasPat, kv, puts, fnVars>>

\* `if (existing)` and `if (age < CACHE_TTL)` of handleRepoIndexing
MutFreshIfPresent(existing, at) == existing.ok

IndexFresh(existing, at) ==
    existing.ok /\ at - existing.indexedAt < CACHE_TTL

\* handleRepoIndexing up to the await of the sub-fetches
IndexLoad(r, u) ==
    /\ req[r].pc = "idle"
    /\ LET existing == KVGet(kv, CacheKey(u))
           rec == [req[r] EXCEPT !.kind = "index", !.url = u, !.pat = hasPat,
                                 !.age = IF existing.ok THEN now - existing.indexedAt
                                         ELSE 0,
                                 !.log = <<"kv.get">>]
       IN  req' = [req EXCEPT ![r] =
                IF IndexFresh(existing, now)
                THEN Finish([rec EXCEPT !.hit = TRUE, !.index = existing],
                            IndexResult(TRUE, "Repository already indexed", TRUE))
                ELSE StartBuild(rec)]
    /\ UNCHANGED <<now, hasPat, kv, puts, fnVars>>

\* handleRepoIndexing when the sub-fetches have settled
IndexBuild(r) ==
    /\ req[r].pc = "build"
    /\ req[r].kind = "index"
    /\ \E up \in Worlds :
          LET index == indexRepository(up, now)
              rec == [req[r] EXCEPT !.index = index,
                                    !.log = Append(@, "github.index")]
          IN  req' = [req EXCEPT ![r] =
                   IF BuildFailed(index)
                   THEN Finish(rec, IndexResult(FALSE, IndexFailure, FALSE))
                   ELSE [rec EXCEPT !.pc = "put"]]
    /\ UNCHANGED <<now, hasPat, kv, puts, fnVars>>

\* handleRepoIndexing: CACHE_KV.put and the success response
IndexPut(r) ==
    /\ req[r].pc = "put"
    /\ req[r].kind = "index"
    /\ kv' = KVPut(kv, CacheKey(req[r].url), req[r].index, CACHE_TTL, now)
    /\ puts' = Append(puts, [by |-> r, key |-> CacheKey(req[r].url),
                             value |-> req[r].index, at |-> now])
    /\ req' = [req EXCEPT ![r] =
                  Finish([@ EXCEPT !.log = Append(@, "kv.put")],
                         IndexResult(TRUE, "Repository indexed successfully", FALSE))]
    /\ UNCHANGED <<now, hasPat, fnVars>>

\* handleQuestion up to the await of the sub-fetches (miss) or of the router (hit)
AskLoad(r, u) ==
    /\ req[r].pc = "idle"
    /\ LET index == KVGet(kv, CacheKey(u))
           rec == [req[r] EXCEPT !.kind = "ask", !.url = u, !.pat = hasPat,
                                 !.index = index, !.hit = index.ok,
                                 !.age = IF index.ok THEN now - index.indexedAt
                                         ELSE 0,
                                 !.thinking = <<"Loading repository data">>,
                                 !.log = <<"kv.get">>]
       IN  req' = [req EXCEPT ![r] =
                IF LookupMissed(index)
                THEN StartBuild([rec EXCEPT
                                    !.thinking = Append(@, "Rebuilding index")])
                ELSE [rec EXCEPT !.pc = "route"]]
    /\ UNCHANGED <<now, hasPat, kv, puts, fnVars>>

\* handleQuestion when the sub-fetches of the rebuild have settled
AskBuild(r) ==
    /\ req[r].pc = "build"
    /\ req[r].kind = "ask"
    /\ \E up \in Worlds :
          LET index == indexRepository(up, now)
              rec == [req[r] EXCEPT !.index = index,
                                    !.log = Append(@, "github.index")]
          IN  req' = [req EXCEPT ![r] =
                   IF BuildFailed(index)
                   THEN Finish(rec, AskResult(AccessFailure,
                                              FailureThinking(rec.thinking)))
                   ELSE [rec EXCEPT !.pc = "put"]]
    /\ UNCHANGED <<now, hasPat, kv, puts, fnVars>>

\* handleQuestion: CACHE_KV.put of the rebuilt snapshot
AskPut(r) ==
    /\ req[r].pc = "put"
    /\ req[r].kind = "ask"
    /\ kv' = KVPut(kv, CacheKey(req[r].url), req[r].index, CACHE_TTL, now)
    /\ puts' = Append(puts, [by |-> r, key |-> CacheKey(req[r].url),
                             value |-> req[r].index, at |-> now])
    /\ req' = [req EXCEPT ![r] = [@ EXCEPT !.pc = "route",
                                           !.log = Append(@, "kv.put")]]
    /\ UNCHANGED <<now, hasPat, fnVars>>

\* the entries handleQuestion pushes before generateAnswer, and buildContext
MutAssembleNoAnswer(rec) ==
    Finish([rec EXCEPT !.thinking = @ \o <<"Building context", "Generating response">>,
                       !.log = Append(@, "context")],
           AskResult(AnswerFallback, rec.thinking))

Assemble(rec) ==
    [rec EXCEPT !.pc = "answer",
                !.thinking = @ \o <<"Building context", "Generating response">>,
                !.log = Append(@, "context")]

\* handleQuestion from "Repository loaded" through analyzeQuery to the await
\* of the file fetches or of the answer model; the detail of "Fetching source
\* files" is files.map(f => f.split('/').pop()), computed before the push and
\* before createHeaders
AskRoute(r) ==
    /\ req[r].pc = "route"
    /\ \E question \in Questions, reply \in RouteReplies :
          LET a == analyzeQuery(question, reply)
              loaded == [req[r] EXCEPT !.thinking = Append(@, "Repository loaded")]
              rec == [loaded EXCEPT
                         !.thinking = Append(@, "Analyzing question"),
                         !.decision = a.decision,
                         !.routed = IF a.called THEN reply.kind ELSE "none",
                         !.log = IF a.called THEN Append(@, "ai.route") ELSE @]
          IN  req' = [req EXCEPT ![r] =
                   IF ~parseGitHubUrl(req[r].url).ok
                   THEN Finish(loaded, ErrorResult(InvalidUrlError))
                   ELSE IF a.decision.needsFiles /\ Len(a.decision.files) > 0
                   THEN IF ~reply.strings
                        THEN Finish(rec, ErrorResult(SplitTypeError))
                        ELSE IF ~req[r].pat
                        THEN Finish([rec EXCEPT !.thinking =
                                        Append(@, "Fetching source files")],
                                    ErrorResult(NoPatError))
                        ELSE [rec EXCEPT !.pc = "files",
                                         !.thinking = Append(@, "Fetching source files")]
                   ELSE Assemble([rec EXCEPT !.thinking =
                                     Append(@, "Using indexed data")])]
    /\ UNCHANGED <<now, hasPat, kv, puts, fnVars>>

\* `if (fetchedFiles.length > 0) thinking.push("Files loaded")`
MutFilesLoadedAlways(thinking, fetched) == Append(thinking, "Files loaded")

FilesLoadedStep(thinking, fetched) ==
    IF Len(fetched) > 0 THEN Append(thinking, "Files loaded") ELSE thinking

\* handleQuestion when the file fetches have settled
AskFiles(r) ==
    /\ req[r].pc = "files"
    /\ \E failed \in {{}, Range(req[r].decision.files)},
          order \in CompletionOrders(Len(FirstFive(req[r].decision.files))) :
          LET fetched == fetchFilesContent(req[r].decision.files, failed, order)
              rec == [req[r] EXCEPT
                         !.files = fetched,
                         !.log = Append(@, "github.files"),
                         !.thinking = FilesLoadedStep(@, fetched)]
          IN  req' = [req EXCEPT ![r] = Assemble(rec)]
    /\ UNCHANGED <<now, hasPat, kv, puts, fnVars>>

\* handleQuestion when the answer model has replied: AI.run throws, or
\* resolves to an object with a string `response`
AskAnswer(r) ==
    /\ req[r].pc = "answer"
    /\ \E reply \in {"throw", "object"} :
          req' = [req EXCEPT ![r] =
                     Finish([@ EXCEPT !.log = Append(@, "ai.answer")],
                            AskResult(generateAnswer(reply), req[r].thinking))]
    /\ UNCHANGED <<now, hasPat, kv, puts, fnVars>>

Next ==
    \/ \E t \in Instants : Tick(t)
    \/ RemovePat
    \/ \E r \in Reqs, u \in Urls : RepoStatus(r, u)
    \/ \E r \in Reqs, u \in Urls : IndexLoad(r, u)
    \/ \E r \in Reqs : IndexBuild(r)
    \/ \E r \in Reqs : IndexPut(r)
    \/ \E r \in Reqs, u \in Urls : AskLoad(r, u)
    \/ \E r \in Reqs : AskBuild(r)
    \/ \E r \in Reqs : AskPut(r)
    \/ \E r \in Reqs : AskRoute(r)
    \/ \E r \in Reqs : AskFiles(r)
    \/ \E r \in Reqs : AskAnswer(r)

Spec == Init /\ [][Next]_vars

(***************************************************************************)
(* Properties of the worker                                                *)
(***************************************************************************)
Did(r, event) == event \in Range(req[r].log)

\* the sub-fetches of a rebuild were issued and have settled
Rebuilt(r) == Did(r, "github.index")

Asks == {r \in Reqs : req[r].kind = "ask"}

Handled == {r \in Reqs : req[r].kind \in {"ask", "index"}}

\* the (owner, name) a cache key names
RepoOfKey(key) == parseGitHubUrl(Tail(key))

\* the last put of a key
LastPut(key) ==
    LET at == {i \in 1..Len(puts) : puts[i].key = key}
    IN  puts[CHOOSE i \in at : \A j \in at : j <= i]

SnapshotFields ==
    {"ok", "fullName", "stars", "openIssuesCount", "readme", "contributing",
     "fileTree", "issues", "pullRequests", "languages", "indexedAt"}

\* C1: handleQuestion answers from a cached snapshot only while
\* now - indexedAt < 1800 s (a question at T+1801 s is not served the
\* snapshot of T).
C1_AskServesOnlyFresh ==
    \A r \in Asks : req[r].hit => req[r].age < CACHE_TTL

\* C2: the cache never holds two entries for one (owner, name), whatever
\* identifier forms the requests used.
C2_OneEntryPerRepository ==
    \A k1, k2 \in DOMAIN kv : RepoOfKey(k1) = RepoOfKey(k2) => k1 = k2

\* C3: a request whose build returned no snapshot (metadata fetch failed) puts
\* nothing and ends with the access-failure message; every value ever put is a
\* complete snapshot of a build whose metadata fetch succeeded.
C3_FailedBuildLeavesCache ==
    /\ \A k \in DOMAIN kv :
          kv[k].value.ok /\ DOMAIN kv[k].value = SnapshotFields
    /\ \A i \in 1..Len(puts) :
          puts[i].value.ok /\ DOMAIN puts[i].value = SnapshotFields
    /\ \A r \in Handled :
          Rebuilt(r) /\ ~req[r].index.ok =>
              /\ ~Did(r, "kv.put")
              /\ \A i \in 1..Len(puts) : puts[i].by # r
              /\ req[r].pc = "done"
              /\ req[r].kind = "index" =>
                    req[r].result = IndexResult(FALSE, IndexFailure, FALSE)
              /\ req[r].kind = "ask" =>
                    /\ req[r].result.type = "ask"
                    /\ req[r].result.answer = AccessFailure

\* C3 witness: an index request and a question both ended on a failed build
C3_Witness ==
    \E r1, r2 \in Reqs :
        /\ req[r1].kind = "index" /\ req[r2].kind = "ask"
        /\ req[r1].pc = "done" /\ req[r2].pc = "done"
        /\ Rebuilt(r1) /\ ~req[r1].index.ok
        /\ Rebuilt(r2) /\ ~req[r2].index.ok

C8_TraceAppendOnly ==
    \A r \in Asks :
        req[r].pc = "done" /\ req[r].result.type = "ask" =>
            /\ req[r].result.thinking = req[r].thinking
            /\ req[r].result.thinking[1] = "Loading repository data"

\* C9: a question rebuilds only when the lookup returned no snapshot, and a
\* failed rebuild ends the question at once with the access-failure answer:
\* no routing call, no file fetch, no context, no answer call.
C9_RebuildOnlyOnMissTerminal ==
    \A r \in Asks :
        /\ req[r].pc = "build" \/ Rebuilt(r) => ~req[r].hit
        /\ Rebuilt(r) /\ ~req[r].index.ok =>
              /\ req[r].pc = "done"
              /\ req[r].result.type = "ask"
              /\ req[r].result.answer = AccessFailure
              /\ req[r].log = <<"kv.get", "github.index">>

\* C9 witness: a question that missed the cache ended on a failed rebuild,
\* after another request had cached a snapshot under another key
C9_Witness ==
    \E r \in Asks :
        /\ req[r].pc = "done" /\ ~req[r].hit
        /\ Rebuilt(r) /\ ~req[r].index.ok
        /\ req[r].result.type = "ask"
        /\ DOMAIN kv # {}

\* C10: the trace a question returns holds "Rebuilding index" exactly when
\* the question triggered a rebuild.
C10_RebuildingIffRebuilt ==
    \A r \in Asks :
        req[r].pc = "done" /\ req[r].result.type = "ask" =>
            ("Rebuilding index" \in Range(req[r].result.thinking) <=> Rebuilt(r))

\* the number of times event is in the log of request r
Calls(r, event) ==
    Cardinality({i \in 1..Len(req[r].log) : req[r].log[i] = event})

\* handleQuestion has a snapshot in hand, from the cache or from its rebuild
Loaded(r) == "Repository loaded" \in Range(req[r].thinking)

\* C13: when the routing model's call throws or its response cannot be
\* parsed, the decision is needsFiles = false with no files, and the question
\* goes on to the context and to the answer model.
C13_RouterFailureDowngrades ==
    \A r \in Asks :
        req[r].routed \in {"throw", "text"} =>
            /\ req[r].decision = NoDecision
            /\ ~Did(r, "github.files")
            /\ Did(r, "context")
            /\ req[r].pc \in {"answer", "done"}
            /\ req[r].pc = "done" =>
                  /\ Did(r, "ai.answer")
                  /\ req[r].result.type = "ask"
                  /\ req[r].result.status = 200

\* C13 witness: a question whose routing response was unparseable has been
\* answered by the model
C13_Witness ==
    \E r \in Asks :
        /\ req[r].routed = "text"
        /\ req[r].pc = "done"
        /\ Did(r, "ai.answer")
        /\ req[r].result.type = "ask"
        /\ req[r].result.answer = ModelText

C29_NoFetchWithoutCredential ==
    \A r \in Handled :
        ~req[r].pat =>
            /\ ~Did(r, "github.index")
            /\ ~Did(r, "github.files")
            /\ req[r].pc \notin {"build", "put", "files"}
            /\ ~req[r].hit => req[r].result = ErrorResult(NoPatError)
            /\ (req[r].kind = "ask" /\ req[r].decision.needsFiles
                  /\ Len(req[r].decision.files) > 0
                  /\ req[r].result # ErrorResult(SplitTypeError))
               => req[r].result = ErrorResult(NoPatError)

\* C29 witness: a question that arrived without the credential found a
\* cached snapshot, was routed to files and ended in the configuration error
C29_Witness ==
    \E r \in Asks :
        /\ ~req[r].pat
        /\ req[r].hit
        /\ Did(r, "ai.route")
        /\ req[r].decision.needsFiles
        /\ req[r].pc = "done"
        /\ req[r].result = ErrorResult(NoPatError)

\* C30: no put replaces a cached snapshot by one whose indexedAt is older.
C30_OnlyNewerSupersedes ==
    [][\A k \in DOMAIN kv \cap DOMAIN kv' :
          kv'[k].value.indexedAt >= kv[k].value.indexedAt]_vars

\* the puts request r has made
PutsBy(r) == SelectSeq(puts, LAMBDA p : p.by = r)

\* C31 (as stated): an index request that finds a snapshot of age < 1800 s
\* returns the cached stats with no build, no fetch and no put; every other
\* index request performs exactly one build and, when the build succeeds,
\* exactly one put with a TTL of 1800 s.
C31_IndexHitOrOneBuild ==
    \A r \in Reqs :
        req[r].kind = "index" =>
            /\ req[r].hit =>
                  /\ req[r].age < CACHE_TTL
                  /\ req[r].pc = "done"
                  /\ req[r].result = IndexResult(TRUE, "Repository already indexed", TRUE)
                  /\ req[r].log = <<"kv.get">>
                  /\ PutsBy(r) = <<>>
            /\ (~req[r].hit /\ req[r].pc = "done") =>
                  /\ Calls(r, "github.index") = 1
                  /\ req[r].index.ok =>
                        /\ Calls(r, "kv.put") = 1
                        /\ Len(PutsBy(r)) = 1

\* C31 (amended): as C31 for a request that arrived with the credential and
\* a parseable identifier; a request without the credential, or whose
\* identifier the Builder cannot parse, that finds no snapshot of age
\* < 1800 s ends in an error with no fetch and no put.  The put of a
\* rebuilt snapshot is executed when the build has settled, with an expiry
\* 1800 s later.
C31_IndexHitOrOneBuildWithCredential ==
    \A r \in Reqs :
        req[r].kind = "index" =>
            /\ req[r].hit =>
                  /\ req[r].age < CACHE_TTL
                  /\ req[r].pc = "done"
                  /\ req[r].result = IndexResult(TRUE, "Repository already indexed", TRUE)
                  /\ req[r].log = <<"kv.get">>
                  /\ PutsBy(r) = <<>>
            /\ (~req[r].hit /\ req[r].pc = "done") =>
                  IF req[r].pat /\ parseGitHubUrl(req[r].url).ok
                  THEN /\ Calls(r, "github.index") = 1
                       /\ IF req[r].index.ok
                          THEN /\ req[r].log = <<"kv.get", "github.index", "kv.put">>
                               /\ Len(PutsBy(r)) = 1
                               /\ PutsBy(r)[1].value = req[r].index
                               /\ PutsBy(r)[1].key = CacheKey(req[r].url)
                               /\ req[r].result =
                                     IndexResult(TRUE, "Repository indexed successfully", FALSE)
                          ELSE /\ PutsBy(r) = <<>>
                               /\ req[r].log = <<"kv.get", "github.index">>
                  ELSE /\ req[r].result.type = "error"
                       /\ req[r].log = <<"kv.get">>
                       /\ PutsBy(r) = <<>>
            /\ (~req[r].hit /\ req[r].age > 0) => req[r].age >= CACHE_TTL
    /\ \A k \in DOMAIN kv : kv[k].expiry = LastPut(k).at + CACHE_TTL

\* C31 witness: an index request built and put a snapshot; a second index
\* request found that snapshot at age 1800 s, rebuilt and put its own
C31_Witness ==
    \E r1, r2 \in Reqs :
        /\ req[r1].kind = "index" /\ req[r2].kind = "index"
        /\ req[r1].pc = "done" /\ req[r2].pc = "done"
        /\ Len(PutsBy(r1)) = 1
        /\ ~req[r2].hit /\ req[r2].age = CACHE_TTL
        /\ Len(PutsBy(r2)) = 1
        /\ Len(puts) = 2 /\ puts[2].by = r2

\* C32: the trace returned by a question that had a snapshot in hand is
\* "Loading repository data", "Rebuilding index" exactly when the cache
\* missed, "Repository loaded", "Analyzing question", then either "Fetching
\* source files" (followed by "Files loaded" exactly when a file body was
\* fetched) when the router asked for a non-empty list of files, or "Using
\* indexed data", then "Building context" and "Generating response".
C32_TraceSequence ==
    \A r \in Asks :
        (req[r].pc = "done" /\ req[r].result.type = "ask" /\ Loaded(r)) =>
            req[r].result.thinking =
                <<"Loading repository data">>
                \o (IF req[r].hit THEN <<>> ELSE <<"Rebuilding index">>)
                \o <<"Repository loaded", "Analyzing question">>
                \o (IF req[r].decision.needsFiles /\ Len(req[r].decision.files) > 0
                    THEN <<"Fetching source files">>
                         \o (IF Len(req[r].files) > 0 THEN <<"Files loaded">> ELSE <<>>)
                    ELSE <<"Using indexed data">>)
                \o <<"Building context", "Generating response">>

\* C32 witness: two answered questions, one that rebuilt and fetched file
\* bodies, one served from the cache whose file fetches all failed
C32_Witness ==
    \E r1, r2 \in Asks :
        /\ req[r1].pc = "done" /\ req[r1].result.type = "ask"
        /\ ~req[r1].hit /\ Len(req[r1].files) > 0
        /\ Len(req[r1].result.thinking) = 8
        /\ req[r2].pc = "done" /\ req[r2].result.type = "ask"
        /\ req[r2].hit /\ Did(r2, "github.files") /\ req[r2].files = <<>>
        /\ Len(req[r2].result.thinking) = 6

\* C33: whatever the routing model replied, a files array with non-string
\* elements included, a question that arrived with the credential and called
\* the routing model ends with an answer and a trace, never with an error.
C33_RouterReplyNeverAborts ==
    \A r \in Asks :
        (req[r].pat /\ Did(r, "ai.route") /\ req[r].pc = "done") =>
            /\ req[r].result.type = "ask"
            /\ Len(req[r].result.thinking) > 0

\* C34: a request that arrives without the credential ends in the
\* configuration error, whether or not a snapshot is cached and whether or
\* not the question needs files.
C34_NoCredentialAlwaysFails ==
    \A r \in Handled :
        ~req[r].pat =>
            /\ req[r].pc = "done"
            /\ req[r].result = ErrorResult(NoPatError)

\* C35: repository-status and a question served from the cache put nothing
\* and leave every entry of the cache as it is; repository-status calls
\* neither GitHub nor the model and reports indexed exactly when the key has
\* an entry, whatever its age; an entry changes only by a put, which
\* replaces it whole.
C35_ReadOnlyOperations ==
    /\ [](\A r \in Reqs :
            /\ req[r].kind = "status" =>
                  /\ req[r].pc = "done"
                  /\ req[r].log = <<"kv.get">>
                  /\ PutsBy(r) = <<>>
            /\ (req[r].kind = "ask" /\ req[r].hit) =>
                  /\ ~Did(r, "kv.put") /\ ~Did(r, "github.index")
                  /\ PutsBy(r) = <<>>
                  /\ \E i \in 1..Len(puts) : puts[i].value = req[r].index)
    /\ [][/\ \A r \in Reqs :
              /\ (req[r].pc = "idle" /\ req'[r].kind = "status") =>
                    /\ kv' = kv /\ puts' = puts
                    /\ req'[r].result.indexed = (CacheKey(req'[r].url) \in DOMAIN kv)
              /\ (req'[r].kind = "ask" /\ req'[r].hit /\ req'[r] # req[r]) =>
                    kv' = kv /\ puts' = puts
              /\ (req[r].pc = "idle" /\ req'[r].kind = "ask" /\ req'[r].hit) =>
                    req'[r].index = kv[CacheKey(req'[r].url)].value
          /\ \A k \in DOMAIN kv \cap DOMAIN kv' :
                kv'[k] # kv[k] =>
                    /\ Len(puts') = Len(puts) + 1
                    /\ puts'[Len(puts')].key = k
                    /\ kv'[k].value = puts'[Len(puts')].value]_vars

\* C35 witness: after one snapshot was put, repository-status reported
\* indexed for the entry at age 1800 s, and the cache still holds that one
\* snapshot
C35_Witness ==
    \E r \in Reqs :
        /\ req[r].kind = "status" /\ req[r].pc = "done"
        /\ req[r].result.indexed /\ req[r].age = CACHE_TTL
        /\ Len(puts) = 1
        /\ DOMAIN kv = {puts[1].key}
        /\ kv[puts[1].key].value = puts[1].value

====
